---- MODULE Spec2Model ----
(***************************************************************************)
(* Model of the Cosmos DB persistence adapter (src/cosmos_data_layer.py):  *)
(* the four collections, the queued step/element writes, the feedback      *)
(* service and the step read path.                                         *)
(*                                                                         *)
(* Strings that the code composes, splits or sorts are sequences of        *)
(* one-character strings, so that "::" handling and the store's string     *)
(* ordering are computed and not assumed.                                  *)
(***************************************************************************)
EXTENDS Integers, Sequences, FiniteSets, TLC

VARIABLES users, threads, steps, elements, queue, submitted, released, alive, calls, ret

vars == <<users, threads, steps, elements, queue, submitted, released, alive, calls, ret>>

(***************************************************************************)
(* Bounds of the model.                                                    *)
(***************************************************************************)
\* total number of step/element requests the sessions submit in one run
MaxOps == 4
\* number of step documents a thread state of the feedback runs is built from
MaxSteps == 3
\* the largest page size a host asks for
MaxPage == 2

(***************************************************************************)
(* Text.                                                                   *)
(***************************************************************************)
\* characters in the order the store compares them (code point order)
Alphabet == <<".", "0", "1", "2", "3", "4", "5", "6", "7", "8", "9", ":", "Z", "e", "s", "t", "u", "x">>

Rank(c) == CHOOSE i \in 1..Len(Alphabet) : Alphabet[i] = c

RECURSIVE LexLeq(_, _)
\* a <= b in the store's ordering of string values
LexLeq(a, b) ==
    IF a = <<>> THEN TRUE
    ELSE IF b = <<>> THEN FALSE
    ELSE IF Rank(Head(a)) < Rank(Head(b)) THEN TRUE
    ELSE IF Rank(Head(a)) > Rank(Head(b)) THEN FALSE
    ELSE LexLeq(Tail(a), Tail(b))

Digit(n) == <<"0", "1", "2", "3", "4", "5", "6", "7", "8", "9">>[n + 1]

DigitValue(c) == CHOOSE n \in 0..9 : Digit(n) = c

RECURSIVE IntToStr(_)
\* str(n) of a natural number
IntToStr(n) == IF n < 10 THEN <<Digit(n)>> ELSE IntToStr(n \div 10) \o <<Digit(n % 10)>>

RECURSIVE StrToInt(_)
\* int(txt) of a text of decimal digits
StrToInt(txt) ==
    IF Len(txt) = 1 THEN DigitValue(txt[1])
    ELSE 10 * StrToInt(SubSeq(txt, 1, Len(txt) - 1)) + DigitValue(txt[Len(txt)])

\* lower case of a character (the letters that have an upper case here)
Lower(c) == IF c = "A" THEN "a" ELSE IF c = "B" THEN "b" ELSE c

LowerText(txt) == [i \in 1..Len(txt) |-> Lower(txt[i])]

\* the text sub occurs in the text txt
Contains(txt, sub) ==
    \E i \in 0..(Len(txt) - Len(sub)) : SubSeq(txt, i + 1, i + Len(sub)) = sub

\* the "::" of the composite feedback id
Sep == <<":", ":">>

\* does the text s start with the text p
StartsWith(s, p) == Len(s) >= Len(p) /\ SubSeq(s, 1, Len(p)) = p

RECURSIVE SplitOn(_, _, _)
\* str.split(sep): acc is the part being collected
SplitOn(s, sep, acc) ==
    IF s = <<>> THEN <<acc>>
    ELSE IF StartsWith(s, sep)
         THEN <<acc>> \o SplitOn(SubSeq(s, Len(sep) + 1, Len(s)), sep, <<>>)
         ELSE SplitOn(Tail(s), sep, Append(acc, Head(s)))

\* the text split on every single colon
SplitOnColon(s, sep) == SplitOn(s, <<":">>, <<>>)

Split(s, sep) == SplitOn(s, sep, <<>>)

(***************************************************************************)
(* Values of a document field that may be temporal.                        *)
(***************************************************************************)
\* a datetime object: seconds and a fraction (in tenths; 0 is microsecond 0)
DateTime(sec, frac) == [txt |-> <<>>, sec |-> sec, frac |-> frac, kind |-> "dt"]

\* a string value
Str(txt) == [txt |-> txt, sec |-> 0, frac |-> 0, kind |-> "str"]

\* datetime.isoformat(): the fraction is printed only when it is not zero
IsoFormat(v) ==
    <<Digit(v.sec)>> \o (IF v.frac = 0 THEN <<>> ELSE <<".", Digit(v.frac)>>)

\* line 82: v.isoformat() + "Z"
SerializeValue(v) == IF v.kind = "dt" THEN Str(IsoFormat(v) \o <<"Z">>) ELSE v

\* the document fields whose value may be temporal
TemporalFields == {"createdAt"}

\* _serialize: every top-level temporal value of the document becomes text
Serialize(doc) ==
    [f \in DOMAIN doc |-> IF f \in TemporalFields THEN SerializeValue(doc[f]) ELSE doc[f]]

\* a dict value: the values of its keys, in key order
Dict(items) == [kind |-> "dict", items |-> items]

\* a list value: its items
List(items) == [kind |-> "list", items |-> items]

RECURSIVE SerializeDict(_)
\* _serialize on a dict of any nesting: a datetime value of a key becomes
\* text, a dict value is walked, and of a list value only the items that are
\* dicts are walked
SerializeDict(doc) ==
    LET Item(x) == IF x.kind = "dict" THEN SerializeDict(x) ELSE x
        Value(v) ==
            IF v.kind = "dt" THEN SerializeValue(v)
            ELSE IF v.kind = "dict" THEN SerializeDict(v)
            ELSE IF v.kind = "list" THEN List([j \in 1..Len(v.items) |-> Item(v.items[j])])
            ELSE v
    IN Dict([i \in 1..Len(doc.items) |-> Value(doc.items[i])])

(***************************************************************************)
(* The store: a collection is the sequence of its documents in the order   *)
(* they were first written; a document is identified by its partition key  *)
(* (threadId for steps and elements) and its id.                           *)
(***************************************************************************)
HasItem(coll, pk, id) == \E i \in 1..Len(coll) : coll[i].threadId = pk /\ coll[i].id = id

\* container.create_item: a document with that key makes it fail (409)
CreateItem(coll, doc) == IF HasItem(coll, doc.threadId, doc.id) THEN coll ELSE Append(coll, doc)

\* container.upsert_item: replaces the document with that key, or adds it
UpsertItem(coll, doc) ==
    IF HasItem(coll, doc.threadId, doc.id)
    THEN [i \in 1..Len(coll) |->
            IF coll[i].threadId = doc.threadId /\ coll[i].id = doc.id THEN doc ELSE coll[i]]
    ELSE Append(coll, doc)

\* container.delete_item: removes the document with that key, if there is one
DeleteItem(coll, pk, id) ==
    LET Keep(d) == ~(d.threadId = pk /\ d.id = id) IN SelectSeq(coll, Keep)

\* SELECT * FROM c WHERE c.threadId = @thread_id, in the partition
InThread(coll, tid) == LET Match(d) == d.threadId = tid IN SelectSeq(coll, Match)

RECURSIVE InsertByCreatedAt(_, _)
\* x placed after every document of the sorted sequence that is not greater
InsertByCreatedAt(x, sorted) ==
    IF sorted = <<>> THEN <<x>>
    ELSE IF LexLeq(Head(sorted).createdAt.txt, x.createdAt.txt)
         THEN <<Head(sorted)>> \o InsertByCreatedAt(x, Tail(sorted))
         ELSE <<x>> \o sorted

RECURSIVE OrderByCreatedAt(_)
\* ORDER BY c.createdAt: the store's sort of the stored (text) values
OrderByCreatedAt(coll) ==
    IF coll = <<>> THEN <<>>
    ELSE InsertByCreatedAt(coll[Len(coll)], OrderByCreatedAt(SubSeq(coll, 1, Len(coll) - 1)))

(***************************************************************************)
(* Sessions, threads and the documents the host submits.                   *)
(***************************************************************************)
Sessions == {"A", "B"}

T1 == <<"t", "1">>
T2 == <<"t", "2">>
ThreadIds == {T1, T2}

\* the thread a session writes to (a thread is owned by one session)
ThreadOf(s) == IF s = "A" THEN T1 ELSE T2

S1 == <<"s", "1">>
S2 == <<"s", "2">>
S3 == <<"s", "3">>
E1 == <<"e", "1">>

\* no parentId, no thread_id argument
None == <<>>

\* the step the host replies to
ParentOf(id) == IF id = S2 THEN S1 ELSE IF id = S3 THEN S2 ELSE None

\* createdAt as the host hands it over: an ISO string or a datetime object
CreatedAtOf(id) ==
    IF id = S1 THEN Str(<<"1", "Z">>)
    ELSE IF id = S2 THEN DateTime(2, 0)
    ELSE DateTime(2, 5)

\* a step document
StepDoc(tid, id, pid, at, content) ==
    [id |-> id, threadId |-> tid, createdAt |-> at,
     content |-> content, parentId |-> pid, feedback |-> <<>>]

\* a StepDict of the host
StepDict(tid, id, content) == StepDoc(tid, id, ParentOf(id), CreatedAtOf(id), content)

\* asdict(element)
ElementDict(tid, id) == [id |-> id, threadId |-> tid, content |-> "x"]

(***************************************************************************)
(* Bodies of the queued operations.                                        *)
(***************************************************************************)
\* create_step calling upsert_item in place of create_item
CreateStepBodyUpsert(doc, st) == UpsertItem(st, Serialize(doc))

\* create_step: create_item, its conflict error logged and swallowed
CreateStepBody(doc, st) == CreateItem(st, Serialize(doc))

\* update_step calling create_item in place of upsert_item
UpdateStepBodyCreate(doc, st) == CreateItem(st, Serialize(doc))

\* update_step: upsert_item
UpdateStepBody(doc, st) == UpsertItem(st, Serialize(doc))

\* create_element: upsert_item
CreateElementBody(doc, el) == UpsertItem(el, Serialize(doc))

\* delete_element looking the element up by id when it has no thread_id
DeleteElementBodyAnyThread(id, tid, el) ==
    LET Keep(d) == d.id # id
    IN IF tid = None THEN SelectSeq(el, Keep) ELSE DeleteItem(el, tid, id)

\* delete_element: nothing without a thread_id; a missing element is not an error
DeleteElementBody(id, tid, el) == IF tid = None THEN el ELSE DeleteItem(el, tid, id)

\* delete_step deleting the whole partition of the step it found
DeleteStepBodyPartition(id, st) ==
    LET Match(d) == d.id = id
        items == SelectSeq(st, Match)
        Keep(d) == d.threadId # items[1].threadId
    IN IF items # <<>> THEN SelectSeq(st, Keep) ELSE st

\* delete_step: cross-partition lookup by id, then delete in the first hit's thread
DeleteStepBody(id, st) ==
    LET Match(d) == d.id = id
        items == SelectSeq(st, Match)
    IN IF items # <<>> THEN DeleteItem(st, items[1].threadId, id) ELSE st

Request(op, id, tid, body) == [id |-> id, threadId |-> tid, op |-> op, body |-> body]

StepOps == {"create_step", "update_step", "delete_step"}

\* the steps collection after the request's body has run
StepsAfter(r, st) ==
    IF r.op = "create_step" THEN CreateStepBody(r.body[1], st)
    ELSE IF r.op = "update_step" THEN UpdateStepBody(r.body[1], st)
    ELSE IF r.op = "delete_step" THEN DeleteStepBody(r.id, st)
    ELSE st

\* the elements collection after the request's body has run
ElementsAfter(r, el) ==
    IF r.op = "create_element" THEN CreateElementBody(r.body[1], el)
    ELSE IF r.op = "delete_element" THEN DeleteElementBody(r.id, r.threadId, el)
    ELSE el

(***************************************************************************)
(* Results handed back to the host; every other step resets ret to Idle.   *)
(***************************************************************************)
Idle == [op |-> "idle", args |-> <<>>, status |-> "ok", val |-> <<>>]

\* a caller with no get_or_create_user call in flight
NoCall == [val |-> <<>>, pc |-> "idle", user |-> <<>>, via |-> "none"]

Result(op, args, status, val) == [op |-> op, args |-> args, status |-> status, val |-> val]


(***************************************************************************)
(* Write Coordinator (queue_until_user_message).                           *)
(***************************************************************************)
Submitted == Len(submitted["A"]) + Len(submitted["B"])

\* the request is queued for the session, in arrival order
QueueUntilUserMessage(s, r) ==
    /\ alive[s]
    /\ Submitted < MaxOps
    /\ submitted' = [submitted EXCEPT ![s] = Append(@, r)]
    /\ queue' = [queue EXCEPT ![s] = Append(@, Len(submitted[s]) + 1)]
    /\ ret' = Idle
    /\ UNCHANGED <<users, threads, steps, elements, released, alive, calls>>

\* the request is run at once (an operation that is not queued)
RunNow(s, r) ==
    /\ alive[s]
    /\ Submitted < MaxOps
    /\ submitted' = [submitted EXCEPT ![s] = Append(@, r)]
    /\ steps' = StepsAfter(r, steps)
    /\ elements' = ElementsAfter(r, elements)
    /\ ret' = Result("issued", <<s, Len(submitted[s]) + 1>>, "ok", <<>>)
    /\ UNCHANGED <<users, threads, queue, released, alive, calls>>

\* update_step without its queue_until_user_message decorator
UpdateStepNow(s, doc) == RunNow(s, Request("update_step", doc.id, doc.threadId, <<doc>>))

\* create_element without its queue_until_user_message decorator
CreateElementNow(s, doc) == RunNow(s, Request("create_element", doc.id, doc.threadId, <<doc>>))

\* delete_element without its queue_until_user_message decorator
DeleteElementNow(s, id, tid) == RunNow(s, Request("delete_element", id, tid, <<>>))

CreateStep(s, doc) == QueueUntilUserMessage(s, Request("create_step", doc.id, doc.threadId, <<doc>>))

UpdateStep(s, doc) == QueueUntilUserMessage(s, Request("update_step", doc.id, doc.threadId, <<doc>>))

CreateElement(s, doc) == QueueUntilUserMessage(s, Request("create_element", doc.id, doc.threadId, <<doc>>))

DeleteElement(s, id, tid) == QueueUntilUserMessage(s, Request("delete_element", id, tid, <<>>))

DeleteStep(s, id) == QueueUntilUserMessage(s, Request("delete_step", id, None, <<>>))

\* two requests touch the same document id of the same collection
SameDoc(r1, r2) == r1.id = r2.id /\ (r1.op \in StepOps) = (r2.op \in StepOps)

\* a release barrier shared by the sessions: one user message releases them all
UserMessageAll(s) ==
    /\ alive[s]
    /\ ~released[s]
    /\ released' = [t \in Sessions |-> TRUE]
    /\ ret' = Idle
    /\ UNCHANGED <<users, threads, steps, elements, queue, submitted, alive, calls>>

\* the release barrier: the session's user message is committed
UserMessage(s) ==
    /\ alive[s]
    /\ ~released[s]
    /\ released' = [released EXCEPT ![s] = TRUE]
    /\ ret' = Idle
    /\ UNCHANGED <<users, threads, steps, elements, queue, submitted, alive, calls>>

\* the queue position a flush may issue next: nothing earlier touches its document
Issuable(s, i) ==
    /\ i \in 1..Len(queue[s])
    /\ \A j \in 1..(i - 1) : ~SameDoc(submitted[s][queue[s][j]], submitted[s][queue[s][i]])

\* a flush that issues a request and leaves it in the queue
FlushStepKeep(s) ==
    /\ released[s]
    /\ \E i \in 1..Len(queue[s]) :
        /\ Issuable(s, i)
        /\ steps' = StepsAfter(submitted[s][queue[s][i]], steps)
        /\ elements' = ElementsAfter(submitted[s][queue[s][i]], elements)
        /\ queue' = queue
        /\ ret' = Result("issued", <<s, queue[s][i]>>, "ok", <<>>)
    /\ UNCHANGED <<users, threads, submitted, released, alive, calls>>

\* one store call of the flush
FlushStep(s) ==
    /\ released[s]
    /\ \E i \in 1..Len(queue[s]) :
        /\ Issuable(s, i)
        /\ steps' = StepsAfter(submitted[s][queue[s][i]], steps)
        /\ elements' = ElementsAfter(submitted[s][queue[s][i]], elements)
        /\ queue' = [queue EXCEPT ![s] = SubSeq(@, 1, i - 1) \o SubSeq(@, i + 1, Len(@))]
        /\ ret' = Result("issued", <<s, queue[s][i]>>, "ok", <<>>)
    /\ UNCHANGED <<users, threads, submitted, released, alive, calls>>

\* the queued write lets the store's error out of its coroutine: the flush stops
WriteFailureRaised(r) == [status |-> "CosmosHttpResponseError", proceeds |-> FALSE]

\* lines 209-210, 218-219, 377-378, 407-408, 427-428: the body of a queued
\* write catches the store's error and logs it; the coroutine ends normally
WriteFailure(r) == [status |-> "ok", proceeds |-> TRUE]

\* the request makes a store call when its body runs
CallsStore(r) == ~(r.op = "delete_element" /\ r.threadId = None)

\* one store call of the flush fails: nothing is written for that request
FlushStepStoreFailure(s) ==
    /\ released[s]
    /\ \E i \in 1..Len(queue[s]) :
        LET o == WriteFailure(submitted[s][queue[s][i]])
        IN /\ Issuable(s, i)
           /\ CallsStore(submitted[s][queue[s][i]])
           /\ queue' = [queue EXCEPT ![s] =
                          IF o.proceeds THEN SubSeq(@, 1, i - 1) \o SubSeq(@, i + 1, Len(@))
                          ELSE <<>>]
           /\ ret' = Result("issued, store failure", <<s, queue[s][i]>>, o.status, <<>>)
    /\ UNCHANGED <<users, threads, steps, elements, submitted, released, alive, calls>>

\* the host tears the session down (never in the middle of a flush)
Teardown(s) ==
    /\ alive[s]
    /\ ~released[s] \/ queue[s] = <<>>
    /\ alive' = [alive EXCEPT ![s] = FALSE]
    /\ queue' = [queue EXCEPT ![s] = <<>>]
    /\ ret' = Idle
    /\ UNCHANGED <<users, threads, steps, elements, submitted, released, calls>>

(***************************************************************************)
(* Reads.                                                                  *)
(***************************************************************************)
\* the fields the store adds to the documents it returns
SystemFields == {"_rid", "_self", "_etag", "_attachments", "_ts"}

\* _clean_item: the document without the keys that start with "_"
CleanItem(d) == [k \in DOMAIN d \ SystemFields |-> d[k]]

\* a document as the store returns it from a read or a query: with the
\* fields the store adds (their values do not matter here)
FromStore(d) == d @@ [k \in SystemFields |-> "sys"]

\* list(container.query_items(...)): the documents as the store returns them
QueryItems(items) == [i \in 1..Len(items) |-> FromStore(items[i])]

\* the query of get_steps
StepsQuery(tid) == OrderByCreatedAt(InThread(steps, tid))

\* line 366: the items of the query are returned as they are
GetSteps(tid) ==
    /\ ret' = Result("get_steps", <<tid>>, "ok", QueryItems(StepsQuery(tid)))
    /\ UNCHANGED <<users, threads, steps, elements, queue, submitted, released, alive, calls>>

(***************************************************************************)
(* Feedback Service.                                                       *)
(***************************************************************************)
\* SELECT * FROM c WHERE c.threadId = @thread_Id AND c.parentId = @parent_Id
Children(st, tid, pid) ==
    LET Match(d) == d.threadId = tid /\ d.parentId # None /\ d.parentId = pid
    IN SelectSeq(st, Match)

\* self._get_step is defined nowhere in the class: the call raises
GetStep(st, tid, id) == [status |-> "AttributeError", step |-> <<>>]

\* the step a feedback is resolved to, attaching to the step forId itself
ResolveStepById(st, tid, forId) ==
    LET Match(d) == d.threadId = tid /\ d.id = forId
        items == SelectSeq(st, Match)
    IN IF items = <<>> THEN GetStep(st, tid, forId) ELSE [status |-> "ok", step |-> <<items[1]>>]

\* lines 157-162, 188-193: the first child of forId, else the fallback lookup
ResolveStep(st, tid, forId) ==
    LET items == Children(st, tid, forId)
    IN IF items = <<>> THEN GetStep(st, tid, forId) ELSE [status |-> "ok", step |-> <<items[1]>>]

\* the feedback id composed with a single colon
FeedbackIdOneColon(tid, forId) == tid \o <<":">> \o forId

\* line 167: f"{feedback.threadId}::{feedback.forId}"
FeedbackId(tid, forId) == tid \o Sep \o forId

\* asdict(feedback), with its id set
FeedbackDict(fb) ==
    [id |-> FeedbackId(fb.threadId, fb.forId), threadId |-> fb.threadId,
     forId |-> fb.forId, value |-> fb.value]

\* upsert_feedback embedding the feedback on every reply to forId
UpsertOutcomeAllReplies(st, fb) ==
    LET r == ResolveStep(st, fb.threadId, fb.forId)
        Reply(d) == d.threadId = fb.threadId /\ d.parentId # None /\ d.parentId = fb.forId
    IN IF fb.threadId = None \/ fb.forId = None
       THEN [steps |-> st, status |-> "ValueError", val |-> <<>>]
       ELSE IF r.status # "ok"
       THEN [steps |-> st, status |-> r.status, val |-> <<>>]
       ELSE IF r.step = <<>>
       THEN [steps |-> st, status |-> "ValueError", val |-> <<>>]
       ELSE [steps |-> [i \in 1..Len(st) |->
                          IF Reply(st[i])
                          THEN [st[i] EXCEPT !.feedback = <<Serialize(FeedbackDict(fb))>>]
                          ELSE st[i]],
             status |-> "ok", val |-> FeedbackId(fb.threadId, fb.forId)]

\* upsert_feedback: its outcome and the steps collection it leaves
UpsertOutcome(st, fb) ==
    LET r == ResolveStep(st, fb.threadId, fb.forId)
    IN IF fb.threadId = None \/ fb.forId = None
       THEN [steps |-> st, status |-> "ValueError", val |-> <<>>]
       ELSE IF r.status # "ok"
       THEN [steps |-> st, status |-> r.status, val |-> <<>>]
       ELSE IF r.step = <<>>
       THEN [steps |-> st, status |-> "ValueError", val |-> <<>>]
       ELSE [steps |-> UpsertItem(st, [r.step[1] EXCEPT !.feedback = <<Serialize(FeedbackDict(fb))>>]),
             status |-> "ok", val |-> FeedbackId(fb.threadId, fb.forId)]

\* delete_feedback without its except clause: the ValueError of the unpacking escapes
DeleteOutcomeRaise(st, fid) ==
    LET parts == Split(fid, Sep)
        r == ResolveStep(st, parts[1], parts[2])
    IN IF Len(parts) # 2
       THEN [steps |-> st, status |-> "ValueError", val |-> <<>>]
       ELSE IF r.status # "ok"
       THEN [steps |-> st, status |-> r.status, val |-> <<>>]
       ELSE IF r.step # <<>> /\ r.step[1].feedback # <<>>
       THEN [steps |-> UpsertItem(st, [r.step[1] EXCEPT !.feedback = <<>>]),
             status |-> "ok", val |-> <<TRUE>>]
       ELSE [steps |-> st, status |-> "ok", val |-> <<FALSE>>]

\* delete_feedback: its outcome and the steps collection it leaves
DeleteOutcome(st, fid) ==
    LET parts == Split(fid, Sep)
        r == ResolveStep(st, parts[1], parts[2])
    IN IF Len(parts) # 2
       THEN [steps |-> st, status |-> "ok", val |-> <<FALSE>>]
       ELSE IF r.status # "ok"
       THEN [steps |-> st, status |-> r.status, val |-> <<>>]
       ELSE IF r.step # <<>> /\ r.step[1].feedback # <<>>
       THEN [steps |-> UpsertItem(st, [r.step[1] EXCEPT !.feedback = <<>>]),
             status |-> "ok", val |-> <<TRUE>>]
       ELSE [steps |-> st, status |-> "ok", val |-> <<FALSE>>]

UpsertFeedback(fb) ==
    LET o == UpsertOutcome(steps, fb)
    IN /\ steps' = o.steps
       /\ ret' = Result("upsert_feedback", <<fb.threadId, fb.forId, fb.value>>, o.status, o.val)
       /\ UNCHANGED <<users, threads, elements, queue, submitted, released, alive, calls>>

DeleteFeedback(fid) ==
    LET o == DeleteOutcome(steps, fid)
    IN /\ steps' = o.steps
       /\ ret' = Result("delete_feedback", <<fid>>, o.status, o.val)
       /\ UNCHANGED <<users, threads, elements, queue, submitted, released, alive, calls>>

(***************************************************************************)
(* Store failures: one store call of an operation raises (the network or   *)
(* the store is unavailable) and writes nothing.  `at` is the position of  *)
(* the failing call among the store calls the operation makes.             *)
(***************************************************************************)
\* upsert_feedback makes its `at`-th store call: the query (line 157) always
\* once the feedback is complete, the upsert (line 169) once a step is resolved
UpsertReaches(st, fb, at) ==
    /\ fb.threadId # None /\ fb.forId # None
    /\ at = 2 => LET r == ResolveStep(st, fb.threadId, fb.forId)
                 IN r.status = "ok" /\ r.step # <<>>

\* upsert_feedback has no try around its store calls: the error escapes
UpsertOutcomeStoreFailure(st, fb, at) ==
    [steps |-> st, status |-> "CosmosHttpResponseError", val |-> <<>>]

\* delete_feedback makes its `at`-th store call: the query (line 188) once the
\* id is unpacked, the upsert (line 197) once a step with a feedback is resolved
DeleteReaches(st, fid, at) ==
    LET parts == Split(fid, Sep)
    IN /\ Len(parts) = 2
       /\ at = 2 => LET r == ResolveStep(st, parts[1], parts[2])
                    IN r.status = "ok" /\ r.step # <<>> /\ r.step[1].feedback # <<>>

\* delete_feedback catches the ValueError of the unpacking only: the error escapes
DeleteOutcomeStoreFailure(st, fid, at) ==
    [steps |-> st, status |-> "CosmosHttpResponseError", val |-> <<>>]

UpsertFeedbackStoreFailure(fb, at) ==
    /\ UpsertReaches(steps, fb, at)
    /\ LET o == UpsertOutcomeStoreFailure(steps, fb, at)
       IN /\ steps' = o.steps
          /\ ret' = Result("upsert_feedback, store failure",
                           <<fb.threadId, fb.forId, fb.value>>, o.status, o.val)
    /\ UNCHANGED <<users, threads, elements, queue, submitted, released, alive, calls>>

DeleteFeedbackStoreFailure(fid, at) ==
    /\ DeleteReaches(steps, fid, at)
    /\ LET o == DeleteOutcomeStoreFailure(steps, fid, at)
       IN /\ steps' = o.steps
          /\ ret' = Result("delete_feedback, store failure", <<fid>>, o.status, o.val)
    /\ UNCHANGED <<users, threads, elements, queue, submitted, released, alive, calls>>

\* lines 367-369: the query of get_steps raises, [] is returned
GetStepsStoreFailure(tid) ==
    /\ ret' = Result("get_steps, store failure", <<tid>>, "ok", <<>>)
    /\ UNCHANGED <<users, threads, steps, elements, queue, submitted, released, alive, calls>>

\* lines 230-232: the root query of get_thread raises, None is returned
GetThreadStoreFailure(tid) ==
    /\ ret' = Result("get_thread, store failure", <<tid>>, "ok", None)
    /\ UNCHANGED <<users, threads, steps, elements, queue, submitted, released, alive, calls>>

(***************************************************************************)
(* Threads: the root documents (partition key /id), their update,          *)
(* listing, view and deletion.  An optional argument or document key is    *)
(* None when absent and <<value>> when present.                            *)
(***************************************************************************)
T3 == <<"t", "3">>
U1 == <<"u", "1">>
U2 == <<"u", "2">>

\* the thread ids a host uses
HostThreads == {T1, T2, T3}

\* datetime.utcnow(): the values the clock may give, one with microsecond 0
UtcNow == {DateTime(2, 0), DateTime(2, 5)}

\* line 328: the root document update_thread starts from when there is none
NewThread(id, now) ==
    [id |-> id, createdAt |-> Str(IsoFormat(now) \o <<"Z">>), name |-> None, userId |-> None,
     userIdentifier |-> None, metadata |-> None, tags |-> None]

\* read_item(item=id, partition_key=id) / SELECT * FROM c WHERE c.id = @thread_id
ReadThread(coll, id) == LET Match(d) == d.id = id IN SelectSeq(coll, Match)

\* the root document added without replacing the one with its id
UpsertThreadAppend(coll, doc) == Append(coll, doc)

\* container.upsert_item on the threads container
UpsertThread(coll, doc) ==
    IF ReadThread(coll, doc.id) # <<>>
    THEN [i \in 1..Len(coll) |-> IF coll[i].id = doc.id THEN doc ELSE coll[i]]
    ELSE Append(coll, doc)

\* container.delete_item on the threads container (not found: logged, ignored)
DeleteThreadItem(coll, id) == LET Keep(d) == d.id # id IN SelectSeq(coll, Keep)

\* the metadata keys of the hosts; a dict maps each key to None or <<value>>
MetaKeys == {"k1", "k2"}

EmptyDict == [k \in MetaKeys |-> None]

\* the patch replacing the stored dict
DictReplace(d, patch) == patch

\* dict.update(patch)
DictUpdate(d, patch) == [k \in MetaKeys |-> IF patch[k] # None THEN patch[k] ELSE d[k]]

\* update_thread stamping the root with the time of every update
UpdateThreadOutcomeRestamp(coll, tid, name, uid, metadata, tags, now) ==
    LET found == ReadThread(coll, tid)
        item0 == IF found = <<>> THEN NewThread(tid, now)
                 ELSE [found[1] EXCEPT !.createdAt = Str(IsoFormat(now) \o <<"Z">>)]
        item1 == IF name # None THEN [item0 EXCEPT !.name = name] ELSE item0
        item2 == IF uid # None
                 THEN [item1 EXCEPT !.userId = uid, !.userIdentifier = uid]
                 ELSE item1
        base == IF item2.metadata = None THEN EmptyDict ELSE item2.metadata[1]
        item3 == IF metadata # None
                 THEN [item2 EXCEPT !.metadata = <<DictUpdate(base, metadata[1])>>]
                 ELSE item2
        item4 == IF tags # None THEN [item3 EXCEPT !.tags = tags] ELSE item3
    IN UpsertThread(coll, Serialize(item4))

\* update_thread writing userId without userIdentifier
UpdateThreadOutcomeUserIdOnly(coll, tid, name, uid, metadata, tags, now) ==
    LET found == ReadThread(coll, tid)
        item0 == IF found = <<>> THEN NewThread(tid, now) ELSE found[1]
        item1 == IF name # None THEN [item0 EXCEPT !.name = name] ELSE item0
        item2 == IF uid # None THEN [item1 EXCEPT !.userId = uid] ELSE item1
        base == IF item2.metadata = None THEN EmptyDict ELSE item2.metadata[1]
        item3 == IF metadata # None
                 THEN [item2 EXCEPT !.metadata = <<DictUpdate(base, metadata[1])>>]
                 ELSE item2
        item4 == IF tags # None THEN [item3 EXCEPT !.tags = tags] ELSE item3
    IN UpsertThread(coll, Serialize(item4))

\* update_thread: the threads collection it leaves
UpdateThreadOutcome(coll, tid, name, uid, metadata, tags, now) ==
    LET found == ReadThread(coll, tid)
        item0 == IF found = <<>> THEN NewThread(tid, now) ELSE found[1]
        item1 == IF name # None THEN [item0 EXCEPT !.name = name] ELSE item0
        item2 == IF uid # None
                 THEN [item1 EXCEPT !.userId = uid, !.userIdentifier = uid]
                 ELSE item1
        base == IF item2.metadata = None THEN EmptyDict ELSE item2.metadata[1]
        item3 == IF metadata # None
                 THEN [item2 EXCEPT !.metadata = <<DictUpdate(base, metadata[1])>>]
                 ELSE item2
        item4 == IF tags # None THEN [item3 EXCEPT !.tags = tags] ELSE item3
    IN UpsertThread(coll, Serialize(item4))

RECURSIVE InsertByCreatedAtDesc(_, _)
\* x placed after every document of the sorted sequence that is not less
InsertByCreatedAtDesc(x, sorted) ==
    IF sorted = <<>> THEN <<x>>
    ELSE IF LexLeq(x.createdAt.txt, Head(sorted).createdAt.txt)
         THEN <<Head(sorted)>> \o InsertByCreatedAtDesc(x, Tail(sorted))
         ELSE <<x>> \o sorted

RECURSIVE OrderByCreatedAtDesc(_)
\* ORDER BY c.createdAt DESC: the store's sort of the stored (text) values
OrderByCreatedAtDesc(coll) ==
    IF coll = <<>> THEN <<>>
    ELSE InsertByCreatedAtDesc(coll[Len(coll)], OrderByCreatedAtDesc(SubSeq(coll, 1, Len(coll) - 1)))

\* CONTAINS(c.name, @search, true): case-insensitive, false without a name
NameContains(d, search) ==
    d.name # None /\ Contains(LowerText(d.name[1]), LowerText(search))

\* lines 271-285: the filtered, sorted query of list_threads
ThreadsQuery(coll, uid, search) ==
    LET Match(d) == d.userId = <<uid>> /\ (search = <<>> \/ NameContains(d, search))
    IN OrderByCreatedAtDesc(SelectSeq(coll, Match))

\* ThreadDict(id, name, createdAt) of list_threads
ThreadSummary(d) == [id |-> d.id, createdAt |-> d.createdAt, name |-> d.name]

\* has_next_page with >= in place of >
HasNextPageGeq(n, end) == n >= end

\* line 294: has_next_page
HasNextPage(n, end) == n > end

\* the slice that loses the last item of every page
SliceShort(items, start, end) ==
    IF start >= Len(items) THEN <<>>
    ELSE SubSeq(items, start + 1, (IF end - 1 < Len(items) THEN end - 1 ELSE Len(items)))

\* line 292: items[start:end]
Slice(items, start, end) ==
    IF start >= Len(items) THEN <<>>
    ELSE SubSeq(items, start + 1, (IF end < Len(items) THEN end ELSE Len(items)))

\* lines 290-313: the page of list_threads; cursor is a text, None when absent
ListThreadsOutcome(coll, cursor, first, uid, search) ==
    LET items == QueryItems(ThreadsQuery(coll, uid, search))
        start == IF cursor # <<>> THEN StrToInt(cursor) ELSE 0
        end == start + first
        page == Slice(items, start, end)
        hasNext == HasNextPage(Len(items), end)
    IN [data |-> [i \in 1..Len(page) |-> ThreadSummary(page[i])],
        hasNextPage |-> hasNext,
        startCursor |-> cursor,
        endCursor |-> IF hasNext THEN IntToStr(end) ELSE None]

UpdateThread(tid, name, uid, metadata, tags) ==
    /\ \E now \in UtcNow :
          threads' = UpdateThreadOutcome(threads, tid, name, uid, metadata, tags, now)
    /\ ret' = Result("update_thread", <<tid, name, uid, metadata, tags>>, "ok", <<>>)
    /\ UNCHANGED <<users, steps, elements, queue, submitted, released, alive, calls>>

ListThreads(cursor, first, uid, search) ==
    /\ ret' = Result("list_threads", <<cursor, first, uid, search>>, "ok",
                     <<ListThreadsOutcome(threads, cursor, first, uid, search)>>)
    /\ UNCHANGED <<users, threads, steps, elements, queue, submitted, released, alive, calls>>

\* get_thread building a view from the steps when there is no root document
GetThreadOutcomeNoRootCheck(tid) ==
    LET items == QueryItems(ReadThread(threads, tid))
        st == QueryItems(StepsQuery(tid))
        el == QueryItems(InThread(elements, tid))
        raw == IF items = <<>> THEN NewThread(tid, DateTime(0, 0)) ELSE CleanItem(items[1])
    IN IF items = <<>> /\ st = <<>>
       THEN None
       ELSE <<[steps |-> [i \in 1..Len(st) |-> CleanItem(st[i])],
               elements |-> [i \in 1..Len(el) |-> CleanItem(el[i])],
               id |-> raw.id, createdAt |-> raw.createdAt, name |-> raw.name,
               userId |-> raw.userId, userIdentifier |-> raw.userIdentifier,
               metadata |-> raw.metadata, tags |-> raw.tags]>>

\* get_thread: None without a root document, else <<the view>>
GetThreadOutcome(tid) ==
    LET items == QueryItems(ReadThread(threads, tid))
        st == QueryItems(StepsQuery(tid))
        el == QueryItems(InThread(elements, tid))
        raw == CleanItem(items[1])
    IN IF items = <<>>
       THEN None
       ELSE <<[steps |-> [i \in 1..Len(st) |-> CleanItem(st[i])],
               elements |-> [i \in 1..Len(el) |-> CleanItem(el[i])],
               id |-> raw.id, createdAt |-> raw.createdAt, name |-> raw.name,
               userId |-> raw.userId, userIdentifier |-> raw.userIdentifier,
               metadata |-> raw.metadata, tags |-> raw.tags]>>

GetThread(tid) ==
    /\ ret' = Result("get_thread", <<tid>>, "ok", GetThreadOutcome(tid))
    /\ UNCHANGED <<users, threads, steps, elements, queue, submitted, released, alive, calls>>

\* get_element: None when the read finds nothing, else <<the cleaned element>>
GetElementOutcome(el, tid, id) ==
    LET Match(d) == d.threadId = tid /\ d.id = id
        found == QueryItems(SelectSeq(el, Match))
    IN IF found = <<>> THEN None ELSE <<CleanItem(found[1])>>

GetElement(tid, id) ==
    /\ ret' = Result("get_element", <<tid, id>>, "ok", GetElementOutcome(elements, tid, id))
    /\ UNCHANGED <<users, threads, steps, elements, queue, submitted, released, alive, calls>>

\* delete_thread that also deletes the thread's steps and elements
DeleteThreadCascade(tid) ==
    /\ threads' = DeleteThreadItem(threads, tid)
    /\ steps' = LET Keep(d) == d.threadId # tid IN SelectSeq(steps, Keep)
    /\ elements' = LET Keep(d) == d.threadId # tid IN SelectSeq(elements, Keep)
    /\ ret' = Result("delete_thread", <<tid>>, "ok", <<>>)
    /\ UNCHANGED <<users, queue, submitted, released, alive, calls>>

DeleteThread(tid) ==
    /\ threads' = DeleteThreadItem(threads, tid)
    /\ ret' = Result("delete_thread", <<tid>>, "ok", <<>>)
    /\ UNCHANGED <<users, steps, elements, queue, submitted, released, alive, calls>>

\* {**existing, **patch}
DictMerge(existing, patch) ==
    [k \in MetaKeys |-> IF patch[k] # None THEN patch[k] ELSE existing[k]]

\* upsert_thread_metadata of src/data_layer.py, for the thread of the session
UpsertThreadMetadata(tid, patch) ==
    LET thread == GetThreadOutcome(tid)
        existing == IF thread # None /\ thread[1].metadata # None
                    THEN thread[1].metadata[1] ELSE EmptyDict
        merged == DictMerge(existing, patch)
    IN /\ \E now \in UtcNow :
             threads' = UpdateThreadOutcome(threads, tid, None, None, <<merged>>, None, now)
       /\ ret' = Result("upsert_thread_metadata", <<tid, patch>>, "ok", <<>>)
       /\ UNCHANGED <<users, steps, elements, queue, submitted, released, alive, calls>>

(***************************************************************************)
(* Users (partition key /id).                                              *)
(***************************************************************************)
\* a User of the host
User(identifier, displayName, metadata) ==
    [metadata |-> metadata, identifier |-> identifier, display_name |-> displayName]

\* lines 117-122: the document create_user builds
UserDoc(user, now) ==
    [id |-> user.identifier,
     createdAt |-> Str(IsoFormat(now) \o <<"Z">>),
     metadata |-> user.metadata,
     identifier |-> IF user.display_name # None /\ user.display_name # <<<<>>>>
                    THEN user.display_name[1] ELSE user.identifier]

\* get_user: None when the read finds nothing, else <<the PersistedUser>>
GetUserOutcome(coll, identifier) ==
    LET found == ReadThread(coll, identifier)
        doc == CleanItem(FromStore(found[1]))
    IN IF found = <<>> THEN None ELSE <<doc>>

\* create_user writing its document over the stored one
CreateUserOutcomeUpsert(coll, user, now) ==
    [users |-> UpsertThread(coll, UserDoc(user, now)), val |-> <<UserDoc(user, now)>>]

\* create_user: create_item; on a conflict (409) the stored user is returned
CreateUserOutcome(coll, user, now) ==
    IF ReadThread(coll, user.identifier) # <<>>
    THEN [users |-> coll, val |-> GetUserOutcome(coll, user.identifier)]
    ELSE [users |-> Append(coll, UserDoc(user, now)), val |-> <<UserDoc(user, now)>>]

GetUser(identifier) ==
    /\ ret' = Result("get_user", <<identifier>>, "ok", GetUserOutcome(users, identifier))
    /\ UNCHANGED <<users, threads, steps, elements, queue, submitted, released, alive, calls>>

CreateUser(user) ==
    \E now \in UtcNow :
        LET o == CreateUserOutcome(users, user, now)
        IN /\ users' = o.users
           /\ ret' = Result("create_user", <<user>>, "ok", o.val)
           /\ UNCHANGED <<threads, steps, elements, queue, submitted, released, alive, calls>>

\* get_or_create_user: the stored user if get_user finds one, else create_user
GetOrCreateUser(user) ==
    \E now \in UtcNow :
        LET existing == GetUserOutcome(users, user.identifier)
            o == CreateUserOutcome(users, user, now)
        IN /\ users' = IF existing # None THEN users ELSE o.users
           /\ ret' = Result("get_or_create_user", <<user>>, "ok",
                            IF existing # None THEN existing ELSE o.val)
           /\ UNCHANGED <<threads, steps, elements, queue, submitted, released, alive, calls>>

\* lines 286-288: the query of list_threads raises, an empty page is returned
EmptyPage ==
    [data |-> <<>>, hasNextPage |-> FALSE, startCursor |-> None, endCursor |-> None]

ListThreadsStoreFailure(cursor, first, uid, search) ==
    /\ ret' = Result("list_threads, store failure", <<cursor, first, uid, search>>, "ok",
                     <<EmptyPage>>)
    /\ UNCHANGED <<users, threads, steps, elements, queue, submitted, released, alive, calls>>

(***************************************************************************)
(* get_or_create_user calls of two callers, interleaved at their store     *)
(* calls: the read of get_user, the create_item of create_user and, after  *)
(* a conflict, the read of the second get_user.                            *)
(***************************************************************************)
\* the caller starts get_or_create_user(user)
CallGetOrCreateUser(p, user) ==
    /\ calls[p].pc = "idle"
    /\ calls' = [calls EXCEPT ![p] = [NoCall EXCEPT !.pc = "get_user", !.user = <<user>>]]
    /\ ret' = Idle
    /\ UNCHANGED <<users, threads, steps, elements, queue, submitted, released, alive>>

\* lines 138-141: the read of get_user; the stored user is returned if found
GetUserStep(p) ==
    /\ calls[p].pc = "get_user"
    /\ LET existing == GetUserOutcome(users, calls[p].user[1].identifier)
       IN IF existing # None
          THEN /\ calls' = [calls EXCEPT ![p].pc = "done", ![p].via = "found",
                                         ![p].val = existing]
               /\ ret' = Result("get_or_create_user", <<calls[p].user[1]>>, "ok", existing)
          ELSE /\ calls' = [calls EXCEPT ![p].pc = "create_item"]
               /\ ret' = Idle
    /\ UNCHANGED <<users, threads, steps, elements, queue, submitted, released, alive>>

\* create_user writing its document over the stored one and returning it
CreateItemStepUpsert(p) ==
    /\ calls[p].pc = "create_item"
    /\ \E now \in UtcNow :
          LET doc == UserDoc(calls[p].user[1], now)
          IN /\ users' = UpsertThread(users, doc)
             /\ calls' = [calls EXCEPT ![p].pc = "done", ![p].via = "created",
                                       ![p].val = <<doc>>]
             /\ ret' = Result("get_or_create_user", <<calls[p].user[1]>>, "ok", <<doc>>)
    /\ UNCHANGED <<threads, steps, elements, queue, submitted, released, alive>>

\* lines 117-135: create_item; the created user is returned, or, when the
\* store answers 409, the call goes on to read the stored user
CreateItemStep(p) ==
    /\ calls[p].pc = "create_item"
    /\ \E now \in UtcNow :
          LET doc == UserDoc(calls[p].user[1], now)
          IN IF ReadThread(users, doc.id) # <<>>
             THEN /\ users' = users
                  /\ calls' = [calls EXCEPT ![p].pc = "conflict"]
                  /\ ret' = Idle
             ELSE /\ users' = Append(users, doc)
                  /\ calls' = [calls EXCEPT ![p].pc = "done", ![p].via = "created",
                                            ![p].val = <<doc>>]
                  /\ ret' = Result("get_or_create_user", <<calls[p].user[1]>>, "ok", <<doc>>)
    /\ UNCHANGED <<threads, steps, elements, queue, submitted, released, alive>>

\* line 129: the read of get_user after the conflict
ConflictStep(p) ==
    /\ calls[p].pc = "conflict"
    /\ LET existing == GetUserOutcome(users, calls[p].user[1].identifier)
       IN /\ calls' = [calls EXCEPT ![p].pc = "done", ![p].via = "conflict",
                                    ![p].val = existing]
          /\ ret' = Result("get_or_create_user", <<calls[p].user[1]>>, "ok", existing)
    /\ UNCHANGED <<users, threads, steps, elements, queue, submitted, released, alive>>

(***************************************************************************)
(* The adapter driven by its sessions.                                     *)
(***************************************************************************)
Init ==
    /\ users = <<>>
    /\ threads = <<>>
    /\ steps = <<>>
    /\ elements = <<>>
    /\ queue = [s \in Sessions |-> <<>>]
    /\ submitted = [s \in Sessions |-> <<>>]
    /\ released = [s \in Sessions |-> FALSE]
    /\ alive = [s \in Sessions |-> TRUE]
    /\ calls = [p \in Sessions |-> NoCall]
    /\ ret = Idle

\* the requests the host of a session submits
HostRequest(s) ==
    \/ \E id \in {S1, S2, S3} : CreateStep(s, StepDict(ThreadOf(s), id, "orig"))
    \/ UpdateStep(s, StepDict(ThreadOf(s), S2, "upd"))
    \/ DeleteStep(s, S2)
    \/ CreateElement(s, ElementDict(ThreadOf(s), E1))
    \/ \E tid \in {ThreadOf(s), None} : DeleteElement(s, E1, tid)

Next ==
    \/ HostRequest("A")
    \/ UserMessage("A")
    \/ FlushStep("A")
    \/ Teardown("A")

Spec == Init /\ [][Next]_vars

\* the step requests of a session and the reads of its thread
NextSteps ==
    \/ \E id \in {S1, S2, S3} : CreateStep("A", StepDict(T1, id, "orig"))
    \/ UpdateStep("A", StepDict(T1, S1, "upd"))
    \/ DeleteStep("A", S2)
    \/ UserMessage("A")
    \/ FlushStep("A")
    \/ \E tid \in ThreadIds : GetSteps(tid)

SpecSteps == Init /\ [][NextSteps]_vars

(***************************************************************************)
(* The Feedback Service on the threads the host may have written.          *)
(***************************************************************************)
\* a thread id that ends with a colon, a step id that contains "::"
TC == <<"t", ":">>
SX == <<"s", ":", ":", "x">>

\* the stored step documents the thread states are built from
FbDocs ==
    {Serialize(StepDoc(T1, id, pid, Str(<<"1", "Z">>), "orig")) :
        id \in {S1, S2, SX}, pid \in {None, S1, SX}}
      \cup {Serialize(StepDoc(TC, S2, S1, Str(<<"1", "Z">>), "orig"))}

\* no two documents of a collection share a key
UniqueKeys(st) ==
    \A i, j \in 1..Len(st) : (st[i].threadId = st[j].threadId /\ st[i].id = st[j].id) => i = j

\* the steps collections of at most MaxSteps documents, none its own parent
FbStores ==
    {st \in UNION {[1..n -> FbDocs] : n \in 0..MaxSteps} :
        UniqueKeys(st) /\ \A i \in 1..Len(st) : st[i].parentId # st[i].id}

\* the composite ids the host may pass to delete_feedback, two of them malformed
FeedbackIds ==
    {FeedbackId(t, f) : t \in {T1, TC}, f \in {S1, S2, SX}} \cup {T1, <<"t", "1", ":", "s", "1">>}

InitFeedback ==
    /\ users = <<>>
    /\ threads = <<>>
    /\ steps \in FbStores
    /\ elements = <<>>
    /\ queue = [s \in Sessions |-> <<>>]
    /\ submitted = [s \in Sessions |-> <<>>]
    /\ released = [s \in Sessions |-> FALSE]
    /\ alive = [s \in Sessions |-> TRUE]
    /\ calls = [p \in Sessions |-> NoCall]
    /\ ret = Idle

\* a Feedback of the host
Feedback(t, f, v) == [threadId |-> t, forId |-> f, value |-> v]

\* the feedbacks the host may pass to upsert_feedback, two of them incomplete
Feedbacks ==
    {Feedback(t, f, v) : t \in {T1, TC}, f \in {S1, S2, SX}, v \in {0, 1}}
      \cup {Feedback(None, S1, 1), Feedback(T1, None, 1)}

NextFeedback ==
    \/ \E fb \in Feedbacks : UpsertFeedback(fb)
    \/ \E fid \in FeedbackIds : DeleteFeedback(fid)

SpecFeedback == InitFeedback /\ [][NextFeedback]_vars

(***************************************************************************)
(* The Pagination Engine on the threads the hosts have written.            *)
(***************************************************************************)
\* the cursors a host may pass: none, or an offset as text
Cursors == {None} \cup {IntToStr(k) : k \in 1..Cardinality(HostThreads)}

\* the searches a host may pass: none, or a text
Searches == {None, <<"a">>}

NextThreads ==
    \/ \E tid \in HostThreads, uid \in {U1, U2}, name \in {None, <<<<"A", "b">>>>} :
          /\ uid = U2 => name # None
          /\ UpdateThread(tid, name, <<uid>>, None, None)
    \/ \E cursor \in Cursors, first \in 1..MaxPage, search \in Searches :
          ListThreads(cursor, first, U1, search)

SpecThreads == Init /\ [][NextThreads]_vars

(***************************************************************************)
(* The thread view over the steps and elements the hosts have written.     *)
(***************************************************************************)
\* the stored step documents of the view states: three of t1, one of t2
ViewDocs ==
    {Serialize(StepDict(T1, id, "orig")) : id \in {S1, S2, S3}}
      \cup {Serialize(StepDict(T2, S1, "orig"))}

\* the steps collections of at most MaxSteps documents
ViewStores == {st \in UNION {[1..n -> ViewDocs] : n \in 0..MaxSteps} : UniqueKeys(st)}

\* the elements collections: none, or one element in each thread
ViewElements == {<<>>, <<ElementDict(T2, E1), ElementDict(T1, E1)>>}

InitView ==
    /\ users = <<>>
    /\ threads = <<>>
    /\ steps \in ViewStores
    /\ elements \in ViewElements
    /\ queue = [s \in Sessions |-> <<>>]
    /\ submitted = [s \in Sessions |-> <<>>]
    /\ released = [s \in Sessions |-> FALSE]
    /\ alive = [s \in Sessions |-> TRUE]
    /\ calls = [p \in Sessions |-> NoCall]
    /\ ret = Idle

NextView ==
    \/ \E tid \in ThreadIds, name \in {None, <<<<"A", "b">>>>} :
          UpdateThread(tid, name, None, None, None)
    \/ \E tid \in ThreadIds : GetThread(tid)
    \/ \E tid \in ThreadIds : DeleteThread(tid)
    \/ \E tid \in ThreadIds : GetSteps(tid)
    \/ \E tid \in ThreadIds : GetElement(tid, E1)

SpecView == InitView /\ [][NextView]_vars

(***************************************************************************)
(* Steps deleted by a session from the stored threads.                     *)
(***************************************************************************)
\* the threads collections: none, or the root of T1
DeleteThreads == {<<>>, <<NewThread(T1, DateTime(2, 0))>>}

InitDelete ==
    /\ users = <<>>
    /\ threads \in DeleteThreads
    /\ steps \in ViewStores
    /\ elements \in ViewElements
    /\ queue = [s \in Sessions |-> <<>>]
    /\ submitted = [s \in Sessions |-> <<>>]
    /\ released = [s \in Sessions |-> FALSE]
    /\ alive = [s \in Sessions |-> TRUE]
    /\ calls = [p \in Sessions |-> NoCall]
    /\ ret = Idle

NextDelete ==
    \/ \E id \in {S1, S2} : DeleteStep("A", id)
    \/ UserMessage("A")
    \/ FlushStep("A")

SpecDelete == InitDelete /\ [][NextDelete]_vars

(***************************************************************************)
(* A session whose flushed writes may fail in the store.                   *)
(***************************************************************************)
NextFlushFaults ==
    \/ \E id \in {S1, S2} : CreateStep("A", StepDict(T1, id, "orig"))
    \/ UpdateStep("A", StepDict(T1, S2, "upd"))
    \/ CreateElement("A", ElementDict(T1, E1))
    \/ DeleteElement("A", E1, T1)
    \/ UserMessage("A")
    \/ FlushStep("A")
    \/ FlushStepStoreFailure("A")

SpecFlushFaults == Init /\ [][NextFlushFaults]_vars

(***************************************************************************)
(* Two sessions, each writing to its own thread, interleaved.              *)
(***************************************************************************)
\* the step a session creates and deletes (step ids are unique across threads)
StepOf(s) == IF s = "A" THEN S1 ELSE S2

NextSessions ==
    \E s \in Sessions :
        \/ CreateStep(s, StepDict(ThreadOf(s), StepOf(s), "orig"))
        \/ CreateElement(s, ElementDict(ThreadOf(s), E1))
        \/ DeleteStep(s, StepOf(s))
        \/ UserMessage(s)
        \/ FlushStep(s)
        \/ Teardown(s)

SpecSessions == Init /\ [][NextSessions]_vars

(***************************************************************************)
(* _serialize applied to the nested documents a host may write.            *)
(***************************************************************************)
\* the deepest nesting of the values of a document
MaxDepth == 2

\* the values that are neither dicts nor lists: two datetimes and a text
Leaves == {DateTime(2, 0), DateTime(2, 5), Str(<<"x">>)}

RECURSIVE Nested(_)
\* the values nested at most n deep: a leaf, or a dict or a list of one
\* value, or of a value followed by a text
Nested(n) ==
    IF n = 0 THEN Leaves
    ELSE LET inner == Nested(n - 1)
             seqs == {<<v>> : v \in inner} \cup {<<v, Str(<<"x">>)>> : v \in inner}
         IN Leaves \cup {Dict(s) : s \in seqs} \cup {List(s) : s \in seqs}

\* the documents: dicts of two keys
NestedDocs == {Dict(<<v, w>>) : v \in Nested(MaxDepth - 1), w \in Nested(MaxDepth)}

InitSerialize ==
    /\ users = <<>>
    /\ threads = <<>>
    /\ steps = <<>>
    /\ elements = <<>>
    /\ queue = [s \in Sessions |-> <<>>]
    /\ submitted = [s \in Sessions |-> <<>>]
    /\ released = [s \in Sessions |-> FALSE]
    /\ alive = [s \in Sessions |-> TRUE]
    /\ calls = [p \in Sessions |-> NoCall]
    /\ \E doc \in NestedDocs : ret = Result("document", <<doc>>, "ok", <<>>)

\* the adapter normalises the document it is about to write
SerializeCall ==
    /\ ret.op = "document"
    /\ ret' = Result("_serialize", ret.args, "ok", <<SerializeDict(ret.args[1])>>)
    /\ UNCHANGED <<users, threads, steps, elements, queue, submitted, released, alive, calls>>

NextSerialize == SerializeCall

SpecSerialize == InitSerialize /\ [][NextSerialize]_vars

(***************************************************************************)
(* Writes that meet a stored document of the same key: S1 is created,      *)
(* updated and deleted, E1 is written with two contents, and a second      *)
(* session creates the S1 of its own thread.                               *)
(***************************************************************************)
\* asdict(element) with the given content
ElementWith(tid, id, content) == [ElementDict(tid, id) EXCEPT !.content = content]

NextWrites ==
    \/ CreateStep("A", StepDict(T1, S1, "orig"))
    \/ UpdateStep("A", StepDict(T1, S1, "upd"))
    \/ DeleteStep("A", S1)
    \/ \E content \in {"x", "y"} : CreateElement("A", ElementWith(T1, E1, content))
    \/ CreateStep("B", StepDict(T2, S1, "orig"))
    \/ \E s \in Sessions : UserMessage(s)
    \/ \E s \in Sessions : FlushStep(s)

SpecWrites == Init /\ [][NextWrites]_vars

(***************************************************************************)
(* Thread roots updated with every combination of given and omitted        *)
(* arguments.                                                              *)
(***************************************************************************)
\* the arguments a host may pass to update_thread, None when omitted
UpdateNames == {None, <<<<"A", "b">>>>}
UpdateUsers == {None, <<U1>>, <<U2>>}
UpdateMetadata ==
    {None, <<[k \in MetaKeys |-> IF k = "k1" THEN <<1>> ELSE None]>>,
           <<[k \in MetaKeys |-> IF k = "k2" THEN <<2>> ELSE None]>>}
UpdateTags == {None, <<<<"a">>>>}

NextUpdate ==
    \/ \E name \in UpdateNames, uid \in UpdateUsers, md \in UpdateMetadata, tags \in UpdateTags :
          UpdateThread(T1, name, uid, md, tags)
    \/ \E name \in UpdateNames : UpdateThread(T2, name, None, None, None)
    \/ \E tid \in ThreadIds : DeleteThread(tid)

SpecUpdate == Init /\ [][NextUpdate]_vars

(***************************************************************************)
(* A session whose flush is scheduled: every store call returns, so the    *)
(* flush, once it can issue a request, eventually issues one.              *)
(***************************************************************************)
NextLive ==
    \/ CreateStep("A", StepDict(T1, S1, "orig"))
    \/ UpdateStep("A", StepDict(T1, S1, "upd"))
    \/ DeleteStep("A", S1)
    \/ DeleteElement("A", E1, T1)
    \/ UserMessage("A")
    \/ FlushStep("A")
    \/ Teardown("A")

SpecLive == Init /\ [][NextLive]_vars /\ WF_vars(FlushStep("A"))

(***************************************************************************)
(* Thread metadata patched by the hosts.                                   *)
(***************************************************************************)
\* the metadata dicts a host may pass
Patches == [MetaKeys -> {None, <<1>>, <<2>>}]

NextMeta ==
    \/ \E tid \in ThreadIds, md \in {None} \cup {<<m>> : m \in Patches} :
          UpdateThread(tid, None, None, md, None)
    \/ \E tid \in ThreadIds, patch \in Patches : UpsertThreadMetadata(tid, patch)
    \/ \E tid \in ThreadIds : DeleteThread(tid)

SpecMeta == Init /\ [][NextMeta]_vars

(***************************************************************************)
(* Users created and read by the hosts.                                    *)
(***************************************************************************)
\* the users a host may pass
HostUsers ==
    {User(id, dn, md) : id \in {U1, U2}, dn \in {None, <<<<"A", "b">>>>},
                        md \in {EmptyDict, [k \in MetaKeys |-> <<1>>]}}

NextUsers ==
    \/ \E user \in HostUsers : CreateUser(user)
    \/ \E user \in HostUsers : GetOrCreateUser(user)
    \/ \E id \in {U1, U2} : GetUser(id)

SpecUsers == Init /\ [][NextUsers]_vars

\* two callers, each with one get_or_create_user call
NextRace ==
    \E p \in Sessions :
        \/ \E user \in HostUsers : CallGetOrCreateUser(p, user)
        \/ GetUserStep(p)
        \/ CreateItemStep(p)
        \/ ConflictStep(p)

SpecRace == Init /\ [][NextRace]_vars

(***************************************************************************)
(* The operations while the store fails, on the steps of SpecFeedback.     *)
(***************************************************************************)
NextFaults ==
    \/ \E fb \in Feedbacks, at \in {1, 2} : UpsertFeedbackStoreFailure(fb, at)
    \/ \E fid \in FeedbackIds, at \in {1, 2} : DeleteFeedbackStoreFailure(fid, at)
    \/ \E tid \in {T1, TC} : GetStepsStoreFailure(tid)
    \/ \E tid \in {T1, TC} : GetThreadStoreFailure(tid)
    \/ \E cursor \in {None, <<"1">>}, uid \in {U1, U2} :
          ListThreadsStoreFailure(cursor, 1, uid, None)

SpecFaults == InitFeedback /\ [][NextFaults]_vars

(***************************************************************************)
(* Write Coordinator properties.                                           *)
(***************************************************************************)
Range(seq) == {seq[i] : i \in 1..Len(seq)}

\* the store holds a document with the key of the request's document
Holds(r) ==
    IF r.op \in StepOps THEN HasItem(steps, r.threadId, r.id) ELSE HasItem(elements, r.threadId, r.id)

\* the store call of request k of session s has just been issued
JustIssued(s, k) == ret.op = "issued" /\ ret.args = <<s, k>>

\* C1: while a session's release barrier has not fired, no store call of any
\* of its requests has been issued and the store holds none of the documents
\* of the requests it has submitted.
C1_NoWriteBeforeBarrier ==
    \A s \in Sessions :
        ~released[s] =>
            /\ \A k \in 1..Len(submitted[s]) : ~JustIssued(s, k) /\ ~Holds(submitted[s][k])
            /\ InThread(steps, ThreadOf(s)) = <<>>
            /\ InThread(elements, ThreadOf(s)) = <<>>

\* a session that has buffered four requests of four kinds before its barrier
C1_Witness ==
    /\ ~released["A"] /\ alive["A"]
    /\ Len(queue["A"]) = 4
    /\ {submitted["A"][k].op : k \in 1..4} =
          {"create_step", "update_step", "create_element", "delete_element"}

\* the requests of the scenario: S1, S2, S3 created, S2 updated
ScenarioS123(s) ==
    {Request("create_step", id, ThreadOf(s), <<StepDict(ThreadOf(s), id, "orig")>>) : id \in {S1, S2, S3}}
        \cup {Request("update_step", S2, ThreadOf(s), <<StepDict(ThreadOf(s), S2, "upd")>>)}

\* the session submitted exactly the scenario, each request once, and its flush is complete
FlushedS123(s) ==
    /\ released[s] /\ queue[s] = <<>>
    /\ Len(submitted[s]) = 4
    /\ Range(submitted[s]) = ScenarioS123(s)

\* C2: when createStep(S1), createStep(S2), createStep(S3) and updateStep(S2)
\* are what a session submitted, then once its barrier has fired and the flush
\* is complete the steps of its thread are S1 and S3 as created and S2 with
\* the updated content.
C2_UpdatedStepAfterFlush ==
    \A s \in Sessions :
        FlushedS123(s) =>
            {<<d.id, d.content>> : d \in Range(InThread(steps, ThreadOf(s)))}
                = {<<S1, "orig">>, <<S2, "upd">>, <<S3, "orig">>}

\* the scenario, buffered in the order S1, S2, S3, update S2, and flushed
C2_Witness ==
    /\ FlushedS123("A")
    /\ submitted["A"][2].op = "create_step" /\ submitted["A"][2].id = S2
    /\ submitted["A"][4].op = "update_step"
    /\ Len(steps) = 3

\* C3: a session torn down before its barrier has an empty queue, and the
\* store holds no document of any request it had submitted; no store call of
\* the session is issued in that state or later.
C3_TeardownDropsBuffered ==
    \A s \in Sessions :
        (~alive[s] /\ ~released[s]) =>
            /\ queue[s] = <<>>
            /\ \A k \in 1..Len(submitted[s]) : ~JustIssued(s, k) /\ ~Holds(submitted[s][k])

\* a session torn down with three requests buffered
C3_Witness ==
    /\ ~alive["A"] /\ ~released["A"]
    /\ Len(submitted["A"]) >= 3
    /\ \E k \in 1..Len(submitted["A"]) : submitted["A"][k].op = "create_step"
    /\ \E k \in 1..Len(submitted["A"]) : submitted["A"][k].op = "create_element"

RECURSIVE ReplaySteps(_)
\* the steps collection after the requests ran one by one in submission order
ReplaySteps(reqs) ==
    IF reqs = <<>> THEN <<>>
    ELSE StepsAfter(reqs[Len(reqs)], ReplaySteps(SubSeq(reqs, 1, Len(reqs) - 1)))

RECURSIVE ReplayElements(_)
\* the elements collection after the requests ran one by one in submission order
ReplayElements(reqs) ==
    IF reqs = <<>> THEN <<>>
    ELSE ElementsAfter(reqs[Len(reqs)], ReplayElements(SubSeq(reqs, 1, Len(reqs) - 1)))

\* C4: a store call is issued only when no request submitted earlier for the
\* same document id is still waiting, and once the flush is complete every
\* document of the session's thread is what running the requests one by one
\* in submission order leaves (so create, delete, create of E leaves E).
C4_PerDocumentOrder ==
    \A s \in Sessions :
        /\ \A k \in 1..Len(submitted[s]) :
              JustIssued(s, k) =>
                  \A i \in 1..Len(queue[s]) :
                      queue[s][i] < k => ~SameDoc(submitted[s][queue[s][i]], submitted[s][k])
        /\ (released[s] /\ queue[s] = <<>>) =>
              /\ Range(InThread(steps, ThreadOf(s))) = Range(ReplaySteps(submitted[s]))
              /\ Range(InThread(elements, ThreadOf(s))) = Range(ReplayElements(submitted[s]))

\* createElement(E), deleteElement(E), createElement(E) flushed: E is in the store
C4_Witness ==
    /\ released["A"] /\ queue["A"] = <<>>
    /\ Len(submitted["A"]) = 3
    /\ submitted["A"][1].op = "create_element"
    /\ submitted["A"][2].op = "delete_element" /\ submitted["A"][2].threadId = T1
    /\ submitted["A"][3].op = "create_element"
    /\ HasItem(elements, T1, E1)

(***************************************************************************)
(* Step read path properties.                                              *)
(***************************************************************************)
\* the instant an ISO timestamp text denotes, in tenths of a second
Instant(txt) ==
    10 * DigitValue(txt[1]) + (IF txt[2] = "." THEN DigitValue(txt[3]) ELSE 0)

\* C5: with no batch pending, get_steps returns exactly the steps of the
\* thread, each once, in non-decreasing order of their creation time.
C5_StepsInCreationOrder ==
    (ret.op = "get_steps" /\ \A s \in Sessions : queue[s] = <<>>) =>
        LET res == [i \in 1..Len(ret.val) |-> CleanItem(ret.val[i])]
            mine == InThread(steps, ret.args[1])
        IN /\ Range(res) = Range(mine)
           /\ Len(res) = Len(mine)
           /\ \A i \in 1..(Len(res) - 1) :
                 Instant(res[i].createdAt.txt) <= Instant(res[i + 1].createdAt.txt)

(***************************************************************************)
(* Feedback Service properties.                                            *)
(***************************************************************************)
\* the positions of the steps that carry a feedback with the given id
Carrying(st, fid) ==
    {i \in 1..Len(st) : st[i].feedback # <<>> /\ st[i].feedback[1].id = fid}

\* C6: when the thread holds a step whose parentId is forId, upsert_feedback
\* succeeds, returns threadId::forId, embeds the feedback on a step whose
\* parentId is forId, and leaves the step whose id is forId as it was.
C6_FeedbackOnReply ==
    [][(ret'.op = "upsert_feedback" /\ Children(steps, ret'.args[1], ret'.args[2]) # <<>>) =>
          LET t == ret'.args[1]
              f == ret'.args[2]
          IN /\ ret'.status = "ok"
             /\ ret'.val = t \o <<":", ":">> \o f
             /\ Len(steps') = Len(steps)
             /\ \E i \in 1..Len(steps) :
                   /\ steps[i].threadId = t /\ steps[i].parentId = f
                   /\ steps'[i].feedback =
                         <<[id |-> ret'.val, threadId |-> t, forId |-> f, value |-> ret'.args[3]]>>
             /\ \A i \in 1..Len(steps) :
                   (steps[i].threadId = t /\ steps[i].id = f) => steps'[i] = steps[i]]_vars

\* s1 and its reply s2 in t1: the feedback for s1 is on s2, s1 has none, the id is t1::s1
C6_Witness ==
    /\ ret.op = "upsert_feedback" /\ ret.status = "ok"
    /\ ret.args = <<T1, S1, 1>>
    /\ ret.val = <<"t", "1", ":", ":", "s", "1">>
    /\ \E i, j \in 1..Len(steps) :
          /\ steps[i].threadId = T1 /\ steps[i].id = S1 /\ steps[i].feedback = <<>>
          /\ steps[j].threadId = T1 /\ steps[j].id = S2 /\ steps[j].parentId = S1
          /\ steps[j].feedback # <<>>

\* C7: when no step of the thread has parentId forId and the step forId is in
\* the thread, upsert_feedback succeeds, embeds the feedback on the step forId
\* and returns the composite id; delete_feedback resolves the same step.
C7_FallbackToForId ==
    /\ (/\ ret.op = "upsert_feedback"
        /\ Children(steps, ret.args[1], ret.args[2]) = <<>>
        /\ HasItem(steps, ret.args[1], ret.args[2])) =>
           /\ ret.status = "ok"
           /\ ret.val = ret.args[1] \o <<":", ":">> \o ret.args[2]
           /\ \E i \in Carrying(steps, ret.val) :
                 steps[i].threadId = ret.args[1] /\ steps[i].id = ret.args[2]
    /\ (/\ ret.op = "delete_feedback"
        /\ Len(Split(ret.args[1], Sep)) = 2
        /\ Children(steps, Split(ret.args[1], Sep)[1], Split(ret.args[1], Sep)[2]) = <<>>
        /\ HasItem(steps, Split(ret.args[1], Sep)[1], Split(ret.args[1], Sep)[2])) =>
           /\ ret.status = "ok"
           /\ \A i \in 1..Len(steps) :
                 (/\ steps[i].threadId = Split(ret.args[1], Sep)[1]
                  /\ steps[i].id = Split(ret.args[1], Sep)[2]) => steps[i].feedback = <<>>

\* C8: a successful upsert_feedback returns threadId::forId with forId as the
\* caller gave it, exactly one step carries a feedback with that id, and
\* repeating the call returns the same id and adds no feedback to any step
\* (with the same value it leaves the collection as it is).
C8_CompositeId ==
    (ret.op = "upsert_feedback" /\ ret.status = "ok") =>
        /\ ret.val = ret.args[1] \o <<":", ":">> \o ret.args[2]
        /\ Cardinality(Carrying(steps, ret.val)) = 1
        /\ \A i \in Carrying(steps, ret.val) :
              /\ Len(steps[i].feedback) = 1
              /\ steps[i].feedback[1].forId = ret.args[2]
              /\ steps[i].feedback[1].value = ret.args[3]
        /\ \A w \in {0, 1} :
              LET o == UpsertOutcome(steps, Feedback(ret.args[1], ret.args[2], w))
              IN /\ o.status = "ok"
                 /\ o.val = ret.val
                 /\ Len(o.steps) = Len(steps)
                 /\ \A i \in 1..Len(steps) : Len(o.steps[i].feedback) = Len(steps[i].feedback)
                 /\ (w = ret.args[3]) => o.steps = steps

\* a feedback attached in a thread where forId has two replies and another step keeps its own feedback
C8_Witness ==
    /\ ret.op = "upsert_feedback" /\ ret.status = "ok"
    /\ Len(Children(steps, ret.args[1], ret.args[2])) = 2
    /\ ret.args[2] # steps[Len(steps)].id
    /\ \E i \in 1..Len(steps) : steps[i].feedback # <<>> /\ steps[i].feedback[1].id # ret.val

\* C9: after a successful upsert_feedback, delete_feedback on the returned id
\* returns true and leaves the step that received the feedback without one.
C9_RoundTrip ==
    (ret.op = "upsert_feedback" /\ ret.status = "ok") =>
        LET o == DeleteOutcome(steps, ret.val)
        IN /\ o.status = "ok"
           /\ o.val = <<TRUE>>
           /\ \A i \in Carrying(steps, ret.val) : o.steps[i].feedback = <<>>

\* C10: after delete_feedback, the same call again returns false, raises no
\* error and leaves the store as it is; delete_feedback returns true only if
\* the step it resolves carried a feedback.
C10_DeleteTwice ==
    /\ ret.op = "delete_feedback" =>
          LET o == DeleteOutcome(steps, ret.args[1])
          IN o.status = "ok" /\ o.val = <<FALSE>> /\ o.steps = steps
    /\ \A fid \in FeedbackIds :
          LET o == DeleteOutcome(steps, fid)
          IN o.val = <<TRUE>> =>
                \E i \in 1..Len(steps) : steps[i].feedback # <<>> /\ o.steps[i].feedback = <<>>

\* the text contains "::"
HasSep(txt) == \E i \in 1..(Len(txt) - 1) : txt[i] = ":" /\ txt[i + 1] = ":"

C12_MalformedIdNoMutation ==
    [][(ret'.op = "delete_feedback" /\ ~HasSep(ret'.args[1])) =>
          UNCHANGED <<users, threads, steps, elements>>]_vars

\* delete_feedback("t1:s1") has returned while the reply to s1 in t1 carries a feedback
C12_Witness ==
    /\ ret.op = "delete_feedback" /\ ret.args = <<<<"t", "1", ":", "s", "1">>>>
    /\ \E i \in 1..Len(steps) :
          steps[i].threadId = T1 /\ steps[i].parentId = S1 /\ steps[i].feedback # <<>>

\* C13: upsert_feedback fails with a validation error and leaves every
\* collection unchanged when threadId or forId is missing, or when the thread
\* holds neither a step whose parentId is forId nor a step whose id is forId.
C13_UnresolvedTargetFails ==
    [][(/\ ret'.op = "upsert_feedback"
        /\ \/ ret'.args[1] = None
           \/ ret'.args[2] = None
           \/ /\ Children(steps, ret'.args[1], ret'.args[2]) = <<>>
              /\ ~HasItem(steps, ret'.args[1], ret'.args[2])) =>
          /\ ret'.status = "ValueError"
          /\ UNCHANGED <<users, threads, steps, elements>>]_vars

(***************************************************************************)
(* Pagination Engine properties.                                           *)
(***************************************************************************)
\* the thread matches the filter of a listing
Matches(d, uid, search) ==
    /\ d.userId = <<uid>>
    /\ search = <<>> \/ (d.name # None /\ Contains(LowerText(d.name[1]), LowerText(search)))

\* the positions of the threads that match
Matching(coll, uid, search) == {i \in 1..Len(coll) : Matches(coll[i], uid, search)}

RECURSIVE WalkFrom(_, _, _, _, _)
\* the pages a host gets by following the cursors, starting at the given one
WalkFrom(coll, cursor, first, uid, search) ==
    LET o == ListThreadsOutcome(coll, cursor, first, uid, search)
    IN IF o.hasNextPage
       THEN <<o>> \o WalkFrom(coll, o.endCursor, first, uid, search)
       ELSE <<o>>

RECURSIVE Flatten(_)
\* the pages' data, concatenated in order
Flatten(pages) == IF pages = <<>> THEN <<>> ELSE Head(pages).data \o Flatten(Tail(pages))

\* C14: following list_threads from no cursor through each returned cursor
\* yields pages that are pairwise disjoint and whose concatenation holds every
\* matching thread exactly once, newest createdAt first.
C14_PaginationCoverage ==
    ret.op = "list_threads" =>
        LET all == Flatten(WalkFrom(threads, None, ret.args[2], ret.args[3], ret.args[4]))
            m == Matching(threads, ret.args[3], ret.args[4])
        IN /\ \A i, j \in 1..Len(all) : all[i].id = all[j].id => i = j
           /\ {all[i].id : i \in 1..Len(all)} = {threads[i].id : i \in m}
           /\ \A i \in 1..Len(all) : \E k \in m : ThreadSummary(threads[k]) = all[i]
           /\ \A i \in 1..(Len(all) - 1) :
                 Instant(all[i].createdAt.txt) >= Instant(all[i + 1].createdAt.txt)

\* the number of items on the first k pages
Covered(pages, k) == Len(Flatten(SubSeq(pages, 1, k)))

\* C15: has_next_page is true exactly when more matching threads exist than
\* start + page size; the next cursor is start + page size when it is true
\* and absent otherwise; following cursors, it is false exactly on the page
\* that completes the listing.
C15_HasNextPage ==
    ret.op = "list_threads" =>
        LET o == ret.val[1]
            n == Cardinality(Matching(threads, ret.args[3], ret.args[4]))
            start == IF ret.args[1] = None THEN 0 ELSE StrToInt(ret.args[1])
            w == WalkFrom(threads, None, ret.args[2], ret.args[3], ret.args[4])
        IN /\ o.hasNextPage <=> n > start + ret.args[2]
           /\ o.hasNextPage => (o.endCursor # None /\ StrToInt(o.endCursor) = start + ret.args[2])
           /\ ~o.hasNextPage => o.endCursor = None
           /\ \A k \in 1..Len(w) : ~w[k].hasNextPage <=> Covered(w, k) = n

\* a page in the middle of a listing, asked for by its cursor, and the last page of another
C15_Witness ==
    /\ ret.op = "list_threads"
    /\ ret.args[1] = <<"1">> /\ ret.args[2] = 1
    /\ ret.val[1].hasNextPage /\ ret.val[1].endCursor = <<"2">>
    /\ Len(threads) = 3

\* ceil(n / p)
CeilDiv(n, p) == (n + p - 1) \div p

\* C16 as stated: the walk has exactly ceil(N / P) pages, for every N >= 0,
\* and none of its pages is empty.
C16_PageCount ==
    ret.op = "list_threads" =>
        LET n == Cardinality(Matching(threads, ret.args[3], ret.args[4]))
            w == WalkFrom(threads, None, ret.args[2], ret.args[3], ret.args[4])
        IN /\ Len(w) = CeilDiv(n, ret.args[2])
           /\ \A k \in 1..Len(w) : w[k].data # <<>>

\* C16 as amended: for N >= 1 the walk has exactly ceil(N / P) pages and none
\* is empty; for N = 0 it is one empty page.
C16_PageCountNonEmpty ==
    ret.op = "list_threads" =>
        LET n == Cardinality(Matching(threads, ret.args[3], ret.args[4]))
            w == WalkFrom(threads, None, ret.args[2], ret.args[3], ret.args[4])
        IN /\ n >= 1 => /\ Len(w) = CeilDiv(n, ret.args[2])
                         /\ \A k \in 1..Len(w) : w[k].data # <<>>
           /\ n = 0 => (Len(w) = 1 /\ w[1].data = <<>>)

\* a listing of two matching threads with page size two, among three threads
C16_Witness ==
    /\ ret.op = "list_threads" /\ ret.args[1] = None /\ ret.args[2] = 2
    /\ Cardinality(Matching(threads, ret.args[3], ret.args[4])) = 2
    /\ Len(ret.val[1].data) = 2 /\ ~ret.val[1].hasNextPage
    /\ Len(threads) = 3

(***************************************************************************)
(* Thread view, deletion and metadata properties.                          *)
(***************************************************************************)
\* the threads collection holds a root document with that id
HasRoot(coll, tid) == \E i \in 1..Len(coll) : coll[i].id = tid

\* C17: get_thread returns absent, and no error, whenever no root document
\* has that id, whatever steps and elements of that thread the store holds.
C17_AbsentWithoutRoot ==
    (ret.op = "get_thread" /\ ~HasRoot(threads, ret.args[1])) =>
        (ret.status = "ok" /\ ret.val = None)

\* get_thread("t1") returned absent while the store holds steps and an element of t1
C17_Witness ==
    /\ ret.op = "get_thread" /\ ret.args = <<T1>> /\ ret.val = None
    /\ Len(InThread(steps, T1)) >= 2
    /\ InThread(elements, T1) # <<>>

\* C18: when the root exists, get_thread returns a view of the root's fields
\* whose steps are exactly the steps of that thread, in ascending order of
\* createdAt, and whose elements are exactly the elements of that thread.
C18_ThreadView ==
    (ret.op = "get_thread" /\ HasRoot(threads, ret.args[1])) =>
        /\ ret.status = "ok" /\ Len(ret.val) = 1
        /\ LET v == ret.val[1]
               tid == ret.args[1]
               mine == {i \in 1..Len(steps) : steps[i].threadId = tid}
               els == {i \in 1..Len(elements) : elements[i].threadId = tid}
           IN /\ v.id = tid
              /\ \E i \in 1..Len(threads) :
                    /\ threads[i].id = tid
                    /\ v.createdAt = threads[i].createdAt /\ v.name = threads[i].name
                    /\ v.userId = threads[i].userId /\ v.metadata = threads[i].metadata
                    /\ v.tags = threads[i].tags
              /\ Len(v.steps) = Cardinality(mine)
              /\ Range(v.steps) = {steps[i] : i \in mine}
              /\ Len(v.elements) = Cardinality(els)
              /\ Range(v.elements) = {elements[i] : i \in els}
              /\ \A i \in 1..(Len(v.steps) - 1) :
                    Instant(v.steps[i].createdAt.txt) <= Instant(v.steps[i + 1].createdAt.txt)

\* C19: delete_thread removes the root document with that id and nothing
\* else: users, steps and elements are unchanged, the other roots stay, and
\* get_steps of that thread returns what it returned before.
C19_DeleteThreadNoCascade ==
    [][ret'.op = "delete_thread" =>
          /\ UNCHANGED <<users, steps, elements>>
          /\ ~HasRoot(threads', ret'.args[1])
          /\ threads' = LET Other(d) == d.id # ret'.args[1] IN SelectSeq(threads, Other)
          /\ OrderByCreatedAt(InThread(steps', ret'.args[1])) = StepsQuery(ret'.args[1])]_vars

\* delete_thread("t1") has run: t1 has no root, its steps and element are in the store
C19_Witness ==
    /\ ret.op = "delete_thread" /\ ret.args = <<T1>>
    /\ ~HasRoot(threads, T1) /\ HasRoot(threads, T2)
    /\ Len(InThread(steps, T1)) >= 2
    /\ InThread(elements, T1) # <<>>

\* the metadata a root document holds, as a dict
MetadataOf(coll, tid) ==
    LET found == ReadThread(coll, tid)
    IN IF found = <<>> \/ found[1].metadata = None THEN EmptyDict ELSE found[1].metadata[1]

\* C20: update_thread with metadata M on a thread whose stored metadata is E
\* leaves every key of M with M's value and every other key of E with E's
\* value; no step other than a deletion of the thread loses a metadata key.
C20_MetadataMergePatch ==
    [][/\ (ret'.op = "update_thread" /\ ret'.args[4] # None) =>
             /\ Len(ReadThread(threads', ret'.args[1])) = 1
             /\ ReadThread(threads', ret'.args[1])[1].metadata # None
             /\ \A k \in MetaKeys :
                   MetadataOf(threads', ret'.args[1])[k] =
                      IF ret'.args[4][1][k] # None
                      THEN ret'.args[4][1][k]
                      ELSE MetadataOf(threads, ret'.args[1])[k]
       /\ \A tid \in ThreadIds, k \in MetaKeys :
             (MetadataOf(threads, tid)[k] # None /\ HasRoot(threads', tid)) =>
                MetadataOf(threads', tid)[k] # None]_vars

\* a patch of k2 alone has been applied to a thread that held k1: both are stored
C20_Witness ==
    /\ ret.op = "update_thread" /\ ret.args[1] = T1
    /\ ret.args[4] = <<[k \in MetaKeys |-> IF k = "k2" THEN <<2>> ELSE None]>>
    /\ MetadataOf(threads, T1) = [k \in MetaKeys |-> IF k = "k2" THEN <<2>> ELSE <<1>>]

\* C21: update_thread leaves exactly one root document with that id, which
\* has a createdAt; a get_thread of that id right after it returns a view; on
\* an existing root it updates in place: the collection keeps its length and
\* order and the root keeps its createdAt.
C21_UpdateThreadCreatesOrUpdates ==
    [][/\ ret'.op = "update_thread" =>
             /\ Cardinality({i \in 1..Len(threads') : threads'[i].id = ret'.args[1]}) = 1
             /\ \A i \in 1..Len(threads') :
                   threads'[i].id = ret'.args[1] => Len(threads'[i].createdAt.txt) > 0
             /\ \A i \in 1..Len(threads) :
                   /\ threads'[i].id = threads[i].id
                   /\ threads'[i].createdAt = threads[i].createdAt
                   /\ threads[i].id # ret'.args[1] => threads'[i] = threads[i]
             /\ Len(threads') = Len(threads) + (IF HasRoot(threads, ret'.args[1]) THEN 0 ELSE 1)
       /\ (ret.op = "update_thread" /\ ret'.op = "get_thread" /\ ret'.args[1] = ret.args[1]) =>
             (ret'.status = "ok" /\ Len(ret'.val) = 1 /\ ret'.val[1].id = ret.args[1])]_vars

\* t1, created first and named, has been updated again without a name: it
\* is still the first of two roots and keeps its name
C21_Witness ==
    /\ ret.op = "update_thread" /\ ret.args[1] = T1 /\ ret.args[2] = None
    /\ Len(threads) = 2 /\ threads[1].id = T1 /\ threads[2].id = T2
    /\ threads[1].name # None

(***************************************************************************)
(* User properties.                                                        *)
(***************************************************************************)
\* C22: create_user for an identifier whose document exists signals no
\* error, leaves the users collection as it is and returns the stored record:
\* its id, identifier, createdAt and metadata are the stored ones.
C22_CreateUserConflict ==
    [][(ret'.op = "create_user" /\ HasRoot(users, ret'.args[1].identifier)) =>
          /\ ret'.status = "ok"
          /\ users' = users
          /\ Len(ret'.val) = 1
          /\ \E i \in 1..Len(users) :
                /\ users[i].id = ret'.args[1].identifier
                /\ ret'.val[1].id = users[i].id
                /\ ret'.val[1].identifier = users[i].identifier
                /\ ret'.val[1].createdAt = users[i].createdAt
                /\ ret'.val[1].metadata = users[i].metadata]_vars

\* create_user with a display name and metadata has returned the stored
\* record, which has neither
C22_Witness ==
    /\ ret.op = "create_user"
    /\ ret.args[1] = User(U1, <<<<"A", "b">>>>, [k \in MetaKeys |-> <<1>>])
    /\ Len(ret.val) = 1
    /\ ret.val[1].identifier = U1 /\ ret.val[1].metadata = EmptyDict
    /\ Len(users) = 2

(***************************************************************************)
(* Error handling properties.                                              *)
(***************************************************************************)
\* the operations one of whose store calls has failed
StoreFailures ==
    {"upsert_feedback, store failure", "delete_feedback, store failure",
     "get_steps, store failure", "get_thread, store failure",
     "list_threads, store failure"}

\* the result is the safe default of the operation: the empty list of
\* get_steps, the absent thread of get_thread, the empty page of list_threads,
\* false for delete_feedback, no feedback id for upsert_feedback
SafeDefault ==
    IF ret.op = "list_threads, store failure" THEN ret.val = <<EmptyPage>>
    ELSE IF ret.op = "delete_feedback, store failure" THEN ret.val = <<FALSE>>
    ELSE ret.val = <<>>

\* C23: an operation one of whose store calls has failed raises nothing to
\* the host and returns its safe default.
C23_StoreFailureSafeDefault ==
    ret.op \in StoreFailures => (ret.status = "ok" /\ SafeDefault)

\* get_steps, get_thread and list_threads do return their safe default
C23_ReadsSafeDefault ==
    ret.op \in StoreFailures \ {"upsert_feedback, store failure", "delete_feedback, store failure"}
       => (ret.status = "ok" /\ SafeDefault)

\* the call that has just been made submitted request k of session s
JustSubmitted(s, k) == Len(submitted[s]) = k - 1 /\ Len(submitted'[s]) = k

\* request k of session s is a delete_element without a thread_id
NoThreadId(s, k) ==
    /\ k \in 1..Len(submitted'[s])
    /\ submitted'[s][k].op = "delete_element"
    /\ submitted'[s][k].threadId = None

\* C24 as claimed: delete_element without a thread_id reports a
\* ValidationError to its caller at the time of the call, and no store
\* operation is issued for it.
C24_MissingThreadIdFailsFast ==
    [][\A s \in Sessions : \A k \in 1..MaxOps :
          (JustSubmitted(s, k) /\ NoThreadId(s, k)) =>
              /\ ret'.status = "ValidationError"
              /\ queue'[s] = queue[s]
              /\ <<steps', elements', threads'>> = <<steps, elements, threads>>]_vars

\* C24: delete_element without a thread_id reports no error, neither at the
\* time of the call, where it is buffered like every queued write, nor when
\* it is flushed; the flush issues no store operation for it: steps, elements
\* and threads are unchanged.
C24_MissingThreadIdNoStoreCall ==
    [][\A s \in Sessions : \A k \in 1..MaxOps :
          /\ (JustSubmitted(s, k) /\ NoThreadId(s, k)) =>
                /\ ret'.status = "ok"
                /\ queue'[s] = Append(queue[s], k)
                /\ <<steps', elements', threads'>> = <<steps, elements, threads>>
          /\ (ret'.op = "issued" /\ ret'.args = <<s, k>> /\ NoThreadId(s, k)) =>
                /\ ret'.status = "ok"
                /\ <<steps', elements', threads'>> = <<steps, elements, threads>>]_vars

\* the flush has run a delete_element without a thread_id while the element
\* of that id is in the store
C24_Witness ==
    \E k \in 1..Len(submitted["A"]) :
        /\ JustIssued("A", k)
        /\ submitted["A"][k].op = "delete_element" /\ submitted["A"][k].threadId = None
        /\ HasItem(elements, T1, submitted["A"][k].id)

(***************************************************************************)
(* Read boundary properties.                                               *)
(***************************************************************************)
\* every document of the sequence has no field the store added
Clean(docs) == \A i \in 1..Len(docs) : DOMAIN docs[i] \cap SystemFields = {}

\* the documents of the last result have no field the store added
CleanResult ==
    IF ret.op = "get_thread"
    THEN Clean(ret.val) /\ \A i \in 1..Len(ret.val) :
                              Clean(ret.val[i].steps) /\ Clean(ret.val[i].elements)
    ELSE IF ret.op = "list_threads"
    THEN \A i \in 1..Len(ret.val) : Clean(ret.val[i].data)
    ELSE Clean(ret.val)

\* C25: no document a read operation returns (get_user, get_thread with its
\* steps and elements, get_steps, get_element, list_threads) has a field
\* whose name begins with "_".
C25_NoSystemFields ==
    ret.op \in {"get_user", "get_thread", "get_steps", "get_element", "list_threads"}
        => CleanResult

\* the reads other than get_steps return cleaned documents
C25_CleanedReads ==
    ret.op \in {"get_user", "get_thread", "get_element", "list_threads"} => CleanResult

(***************************************************************************)
(* Thread listing properties.                                              *)
(***************************************************************************)
\* every thread of the page is a stored thread that matches the filter
OnlyMatching(data, uid, search) ==
    \A i \in 1..Len(data) :
        \E k \in Matching(threads, uid, search) : threads[k].id = data[i].id

\* the page is in descending order of creation time
NewestFirst(data) ==
    \A i \in 1..(Len(data) - 1) :
        Instant(data[i].createdAt.txt) >= Instant(data[i + 1].createdAt.txt)

\* C26: the page list_threads returns, and every page of the listing, holds
\* only threads whose userId is the filter's and, when a search is given,
\* whose name contains it; the page is ordered by createdAt, newest first.
C26_ListThreadsFiltered ==
    ret.op = "list_threads" =>
        LET pages == WalkFrom(threads, None, ret.args[2], ret.args[3], ret.args[4])
        IN /\ OnlyMatching(ret.val[1].data, ret.args[3], ret.args[4])
           /\ \A p \in 1..Len(pages) : OnlyMatching(pages[p].data, ret.args[3], ret.args[4])
           /\ NewestFirst(ret.val[1].data)

\* the filter alone: no page holds a thread of another user or of another name
C26_OnlyMatchingThreads ==
    ret.op = "list_threads" =>
        LET pages == WalkFrom(threads, None, ret.args[2], ret.args[3], ret.args[4])
        IN /\ OnlyMatching(ret.val[1].data, ret.args[3], ret.args[4])
           /\ \A p \in 1..Len(pages) : OnlyMatching(pages[p].data, ret.args[3], ret.args[4])

(***************************************************************************)
(* Step deletion properties.                                               *)
(***************************************************************************)
\* the sequence without its i-th item
Without(seq, i) == SubSeq(seq, 1, i - 1) \o SubSeq(seq, i + 1, Len(seq))

\* C27: the store call of a delete_step removes one step that has the given
\* id and leaves every other step, every thread, element and user as it was;
\* when no step has that id nothing changes; in both cases no error is
\* reported.
C27_DeleteStepFrame ==
    [][\A s \in Sessions : \A k \in 1..Len(submitted[s]) :
          (ret'.op = "issued" /\ ret'.args = <<s, k>> /\ submitted[s][k].op = "delete_step") =>
              /\ ret'.status = "ok"
              /\ <<threads', elements', users'>> = <<threads, elements, users>>
              /\ IF \E i \in 1..Len(steps) : steps[i].id = submitted[s][k].id
                 THEN \E i \in 1..Len(steps) :
                         steps[i].id = submitted[s][k].id /\ steps' = Without(steps, i)
                 ELSE steps' = steps]_vars

\* delete_step(S1) has removed S1 of T1; the S1 of T2, another step, the
\* elements and the thread root are in the store
C27_Witness ==
    \E k \in 1..Len(submitted["A"]) :
        /\ JustIssued("A", k)
        /\ submitted["A"][k].op = "delete_step" /\ submitted["A"][k].id = S1
        /\ ~HasItem(steps, T1, S1) /\ HasItem(steps, T2, S1)
        /\ Len(steps) = 2
        /\ elements # <<>> /\ threads # <<>>

(***************************************************************************)
(* Flush failure properties.                                               *)
(***************************************************************************)
\* C28: when the store call of one flushed request fails, no error leaves
\* the flush, nothing written by the other requests is undone (steps,
\* elements and threads are as they were), and every other request of the
\* batch that was waiting is still waiting to be issued, in the same order,
\* in a session that is still released.
C28_FailedWriteKeepsSiblings ==
    [][\A s \in Sessions : \A k \in 1..Len(submitted[s]) :
          (ret'.op = "issued, store failure" /\ ret'.args = <<s, k>>) =>
              /\ ret'.status = "ok"
              /\ <<steps', elements', threads'>> = <<steps, elements, threads>>
              /\ released'[s] /\ alive'[s]
              /\ \E i \in 1..Len(queue[s]) :
                    queue[s][i] = k /\ queue'[s] = Without(queue[s], i)]_vars

\* create_step(S1), create_step(S2), create_element(E1) flushed: the write of
\* S2 failed, S1 (issued before it) and E1 (issued after it) are in the store
C28_Witness ==
    /\ released["A"] /\ queue["A"] = <<>>
    /\ Len(submitted["A"]) = 3
    /\ submitted["A"][1].op = "create_step" /\ submitted["A"][1].id = S1
    /\ submitted["A"][2].op = "create_step" /\ submitted["A"][2].id = S2
    /\ submitted["A"][3].op = "create_element"
    /\ HasItem(steps, T1, S1) /\ ~HasItem(steps, T1, S2) /\ HasItem(elements, T1, E1)
    /\ JustIssued("A", 3)

(***************************************************************************)
(* Session isolation properties.                                           *)
(***************************************************************************)
\* the step is the barrier, the teardown or a flush step of session s
ActsFor(s) ==
    \/ released'[s] # released[s]
    \/ alive'[s] # alive[s]
    \/ ret'.op = "issued" /\ ret'.args[1] = s /\ queue'[s] # queue[s]

\* C29: the barrier, the teardown and the flush steps of one session leave
\* the queue, the barrier and the liveness of every other session, and the
\* stored steps and elements of its thread, as they were; and while a session
\* has not had its own barrier the store holds no step and no element of its
\* thread.
C29_SessionsIsolated ==
    [][\A s \in Sessions :
          /\ ActsFor(s) =>
                \A t \in Sessions \ {s} :
                    /\ queue'[t] = queue[t] /\ submitted'[t] = submitted[t]
                    /\ released'[t] = released[t] /\ alive'[t] = alive[t]
                    /\ InThread(steps', ThreadOf(t)) = InThread(steps, ThreadOf(t))
                    /\ InThread(elements', ThreadOf(t)) = InThread(elements, ThreadOf(t))
          /\ ~released'[s] =>
                /\ InThread(steps', ThreadOf(s)) = <<>>
                /\ InThread(elements', ThreadOf(s)) = <<>>]_vars

\* session A has flushed its step while session B, not released, still
\* holds two buffered requests
C29_Witness ==
    /\ JustIssued("A", 1) /\ HasItem(steps, T1, S1)
    /\ alive["B"] /\ ~released["B"] /\ Len(queue["B"]) = 2
    /\ InThread(steps, T2) = <<>> /\ InThread(elements, T2) = <<>>

(***************************************************************************)
(* Write normalisation properties.                                         *)
(***************************************************************************)
RECURSIVE NormalizeForWrite(_)
\* the value with every datetime at any nesting of dicts and lists as text
NormalizeForWrite(v) ==
    IF v.kind = "dt" THEN Str(IsoFormat(v) \o <<"Z">>)
    ELSE IF v.kind = "dict" THEN Dict([i \in 1..Len(v.items) |-> NormalizeForWrite(v.items[i])])
    ELSE IF v.kind = "list" THEN List([i \in 1..Len(v.items) |-> NormalizeForWrite(v.items[i])])
    ELSE v

RECURSIVE HasTemporal(_)
\* a datetime is reachable in the value
HasTemporal(v) ==
    IF v.kind = "dt" THEN TRUE
    ELSE IF v.kind \in {"dict", "list"} THEN \E i \in 1..Len(v.items) : HasTemporal(v.items[i])
    ELSE FALSE

RECURSIVE TemporalInList(_)
\* a datetime is reachable through a list of which it is an item, or through
\* a list that is an item of a list
TemporalInList(v) ==
    IF v.kind = "dict" THEN \E i \in 1..Len(v.items) : TemporalInList(v.items[i])
    ELSE IF v.kind = "list"
    THEN \E i \in 1..Len(v.items) :
            IF v.items[i].kind = "dict" THEN TemporalInList(v.items[i])
            ELSE HasTemporal(v.items[i])
    ELSE FALSE

\* C30: the document _serialize returns has no datetime at any nesting of
\* dicts and lists, every datetime of the input is in its place as the text
\* isoformat() + "Z", and every other value is unchanged.
C30_NormalizeEveryTemporal ==
    ret.op = "_serialize" =>
        /\ ~HasTemporal(ret.val[1])
        /\ ret.val[1] = NormalizeForWrite(ret.args[1])

\* the same, for the documents none of whose datetimes is an item of a list
\* or inside a list of a list
C30_NormalizeThroughDicts ==
    (ret.op = "_serialize" /\ ~TemporalInList(ret.args[1])) =>
        /\ ~HasTemporal(ret.val[1])
        /\ ret.val[1] = NormalizeForWrite(ret.args[1])

\* a document with a datetime in a dict that is an item of a list was normalised
C30_DictInListReached ==
    /\ ret.op = "_serialize" /\ ~TemporalInList(ret.args[1])
    /\ \E i \in 1..Len(ret.args[1].items) :
          /\ ret.args[1].items[i].kind = "list"
          /\ HasTemporal(ret.args[1].items[i])

(***************************************************************************)
(* Feedback id parsing properties.                                         *)
(***************************************************************************)
\* the id parses back into the pair it was composed from, and the pair
\* resolves the step the feedback was resolved to
ParsesBack(st, fid, tid, forId) ==
    LET parts == Split(fid, Sep)
    IN /\ parts = <<tid, forId>>
       /\ ResolveStep(st, parts[1], parts[2]).status = "ok"
       /\ ResolveStep(st, parts[1], parts[2]) = ResolveStep(st, tid, forId)

\* C31: for every threadId and forId for which upsert_feedback succeeds, the
\* id it returns is split by delete_feedback into that same (threadId, forId)
\* pair, which resolves the same step.
C31_ParseInvertsCompose ==
    (ret.op = "upsert_feedback" /\ ret.status = "ok") =>
        ParsesBack(steps, ret.val, ret.args[1], ret.args[2])

\* the same, for a threadId and a forId that contain no colon
C31_ParseInvertsComposeNoColon ==
    (/\ ret.op = "upsert_feedback" /\ ret.status = "ok"
     /\ \A i \in 1..Len(ret.args[1]) : ret.args[1][i] # ":"
     /\ \A i \in 1..Len(ret.args[2]) : ret.args[2][i] # ":") =>
        ParsesBack(steps, ret.val, ret.args[1], ret.args[2])

(***************************************************************************)
(* Key uniqueness and overwrite properties.                                *)
(***************************************************************************)
\* the collection after the document of the request's key was replaced by
\* the request's document and nothing else changed
Replaced(before, after, r) ==
    /\ Len(after) = Len(before)
    /\ \A i \in 1..Len(before) :
          IF before[i].threadId = r.threadId /\ before[i].id = r.id
          THEN /\ after[i].id = r.id /\ after[i].threadId = r.threadId
               /\ after[i].content = r.body[1].content
          ELSE after[i] = before[i]

\* C32: the steps collection never holds two documents of one (threadId,
\* id); the store call of a create_step whose key is already stored leaves
\* the steps as they are and reports no error, while the store call of an
\* update_step or of a create_element whose key is already stored replaces
\* the stored document by the request's.
C32_UniqueStepsNoOverwrite ==
    [][/\ UniqueKeys(steps') /\ UniqueKeys(elements')
       /\ \A s \in Sessions : \A k \in 1..Len(submitted[s]) :
             (ret'.op = "issued" /\ ret'.args = <<s, k>>) =>
                 LET r == submitted[s][k]
                 IN /\ (r.op = "create_step" /\ HasItem(steps, r.threadId, r.id)) =>
                          (steps' = steps /\ ret'.status = "ok")
                    /\ (r.op = "update_step" /\ HasItem(steps, r.threadId, r.id)) =>
                          Replaced(steps, steps', r)
                    /\ (r.op = "create_element" /\ HasItem(elements, r.threadId, r.id)) =>
                          Replaced(elements, elements', r)]_vars

\* create_step(S1) has been issued on the S1 that an update_step had
\* written: the stored step has the updated content; the other thread has
\* its own S1
C32_Witness ==
    \E k \in 1..Len(submitted["A"]) :
        /\ JustIssued("A", k)
        /\ submitted["A"][k].op = "create_step" /\ submitted["A"][k].body[1].content = "orig"
        /\ \E i \in 1..Len(steps) :
              steps[i].threadId = T1 /\ steps[i].id = S1 /\ steps[i].content = "upd"
        /\ HasItem(steps, T2, S1)

(***************************************************************************)
(* Thread root properties.                                                 *)
(***************************************************************************)
\* the root with the given id, in a collection that holds it
RootOf(coll, tid) == ReadThread(coll, tid)[1]

\* C33: an update_thread on a stored root leaves its createdAt as it is, and
\* leaves as they are the stored name, userId and userIdentifier, metadata
\* and tags whose argument the call omitted; an update_thread that creates
\* the root gives it a createdAt and leaves the omitted fields unset.
C33_CreatedAtAndOmittedKept ==
    [][ret'.op = "update_thread" =>
          LET tid == ret'.args[1]
              new == RootOf(threads', tid)
              old == IF HasRoot(threads, tid) THEN RootOf(threads, tid)
                     ELSE [new EXCEPT !.name = None, !.userId = None, !.userIdentifier = None,
                                      !.metadata = None, !.tags = None]
          IN /\ HasRoot(threads', tid)
             /\ Len(new.createdAt.txt) > 0
             /\ new.createdAt = old.createdAt
             /\ ret'.args[2] = None => new.name = old.name
             /\ ret'.args[3] = None =>
                   (new.userId = old.userId /\ new.userIdentifier = old.userIdentifier)
             /\ ret'.args[4] = None => new.metadata = old.metadata
             /\ ret'.args[5] = None => new.tags = old.tags]_vars

\* update_thread with every argument omitted has run on a root that has a
\* name, a user, metadata and tags
C33_Witness ==
    /\ ret.op = "update_thread" /\ ret.args = <<T1, None, None, None, None>>
    /\ HasRoot(threads, T1)
    /\ RootOf(threads, T1).createdAt = Str(<<"2", "Z">>)
    /\ RootOf(threads, T1).name # None /\ RootOf(threads, T1).userId # None
    /\ RootOf(threads, T1).metadata # None /\ RootOf(threads, T1).tags # None

\* C34: every thread document that has a userId has a userIdentifier equal
\* to it.
C34_UserIdentifierIsUserId ==
    \A i \in 1..Len(threads) :
        threads[i].userId # None => threads[i].userIdentifier = threads[i].userId

\* a root whose user was set, then set to another user by a later update
C34_Witness ==
    /\ ret.op = "update_thread" /\ ret.args[1] = T1 /\ ret.args[3] = <<U2>>
    /\ HasRoot(threads, T1)
    /\ RootOf(threads, T1).userId = <<U2>> /\ RootOf(threads, T1).userIdentifier = <<U2>>
    /\ RootOf(threads, T1).name # None
    /\ Len(threads) = 2

(***************************************************************************)
(* Feedback frame properties.                                              *)
(***************************************************************************)
\* C35: upsert_feedback and delete_feedback leave the users, threads and
\* elements collections as they are, keep the steps collection's documents
\* in place, change at most one step document, and change in it nothing but
\* its feedback field.
C35_FeedbackFrame ==
    [][ret'.op \in {"upsert_feedback", "delete_feedback"} =>
          /\ UNCHANGED <<users, threads, elements>>
          /\ Len(steps') = Len(steps)
          /\ Cardinality({i \in 1..Len(steps) : steps'[i] # steps[i]}) <= 1
          /\ \A i \in 1..Len(steps) :
                [steps'[i] EXCEPT !.feedback = steps[i].feedback] = steps[i]]_vars

\* delete_feedback has removed the feedback of one reply in a thread of
\* three steps, where forId has two replies and another step keeps its own
\* feedback
C35_Witness ==
    /\ ret.op = "delete_feedback" /\ ret.status = "ok" /\ ret.val = <<TRUE>>
    /\ Len(steps) = 3
    /\ Len(Children(steps, Split(ret.args[1], Sep)[1], Split(ret.args[1], Sep)[2])) = 2
    /\ \E i \in 1..Len(steps) : steps[i].feedback # <<>>

(***************************************************************************)
(* Concurrent get_or_create_user properties.                               *)
(***************************************************************************)
\* both callers have finished a get_or_create_user for the same identifier
BothDone(p, q) ==
    /\ p # q
    /\ calls[p].pc = "done" /\ calls[q].pc = "done"
    /\ calls[p].user[1].identifier = calls[q].user[1].identifier

\* C36: when two get_or_create_user calls for one identifier have both
\* finished, however their store calls interleaved, the users collection
\* holds exactly one document of that identifier, each call has returned a
\* record (none has failed or returned nothing), and the two records have the
\* same id and the same createdAt.
C36_ConcurrentGetOrCreate ==
    \A p, q \in Sessions :
        BothDone(p, q) =>
            /\ Cardinality({i \in 1..Len(users) :
                               users[i].id = calls[p].user[1].identifier}) = 1
            /\ Len(calls[p].val) = 1 /\ Len(calls[q].val) = 1
            /\ calls[p].val[1].id = calls[p].user[1].identifier
            /\ calls[p].val[1].id = calls[q].val[1].id
            /\ calls[p].val[1].createdAt = calls[q].val[1].createdAt

\* both calls found no user; B created it, A met the conflict and returned
\* the stored record, which has neither A's display name nor A's metadata
C36_Witness ==
    /\ BothDone("A", "B")
    /\ calls["A"].via = "conflict" /\ calls["B"].via = "created"
    /\ calls["A"].user[1].display_name # None /\ calls["B"].user[1].display_name = None
    /\ calls["A"].val[1].identifier = calls["A"].user[1].identifier

(***************************************************************************)
(* Flush completion properties.                                            *)
(***************************************************************************)
\* C37: once the barrier of a session has fired, its queue eventually is
\* empty, at whatever time requests were submitted, before the barrier or
\* after it; a store call is issued only for a request that is waiting in
\* the queue, which then leaves the queue, and no request is in the queue
\* twice or comes back to it: every buffered request is issued exactly once.
C37_FlushCompletes ==
    /\ \A s \in Sessions : released[s] ~> (queue[s] = <<>>)
    /\ [][\A s \in Sessions :
             /\ \A i, j \in 1..Len(queue'[s]) : queue'[s][i] = queue'[s][j] => i = j
             /\ Range(queue'[s]) \subseteq
                   Range(queue[s]) \cup (Len(submitted[s]) + 1)..Len(submitted'[s])
             /\ \A k \in 1..Len(submitted[s]) :
                   (ret'.op = "issued" /\ ret'.args = <<s, k>>) =>
                       (k \in Range(queue[s]) /\ k \notin Range(queue'[s]))]_vars

\* the flush is complete; the last request was submitted after the barrier
\* had fired and the flush had emptied the queue, and it has been issued
C37_Witness ==
    /\ released["A"] /\ alive["A"] /\ queue["A"] = <<>>
    /\ Len(submitted["A"]) = 3
    /\ JustIssued("A", 3)
    /\ submitted["A"][3].op = "delete_step"
    /\ steps = <<>>
    /\ submitted["A"][1].op = "create_step" /\ submitted["A"][2].op = "delete_element"

====
